---- MODULE Spec2Model ----
(***************************************************************************)
(* TDS LLM deployer: the submission endpoint (app/main.py), the task table *)
(* (app/db.py, app/models.py) and the background worker (app/worker.py).   *)
(*                                                                         *)
(* One invocation slot is one call of process_task: either the background  *)
(* task that receive_task schedules for a freshly inserted row, or a       *)
(* direct call with an identifier that has no row (an unknown id, or a     *)
(* dict such as the one of worker.py's smoke test).  The SQLite table is   *)
(* the reliable collaborator of spec section 6: a commit succeeds.  Model, *)
(* repository host and evaluator are the environment: every call to them   *)
(* answers with one of the outcomes the client code distinguishes.         *)
(***************************************************************************)
EXTENDS Integers, Sequences, FiniteSets, TLC

\* ------------------------------------------------------------------ bounds
MaxTasks == 2
MaxLiveAt == 2

Slots == 1..MaxTasks

\* ------------------------------------------------------- program constants
GenMaxAttempts == 3
PushMaxAttempts == 4
NotifyRetries == 5
IndexTimeout == 30
IndexSleep == 2
PagesTimeout == 180
PagesPollInterval == 2
PingTimeout == 8

\* --------------------------------------------------------------- the inputs
None == "None"
Secrets == {"", "s3cret"}
Briefs == {"", "Hello World page"}
EvalUrls == {"", "https://evaluator/notify"}
TaskNames == {"demo task"}
GITHUB_OWNER == "owner"

\* A check is a JavaScript snippet; the model keeps its call form and argument.
CheckTitle == [form |-> "getElementById", arg |-> "title"]
CheckOther == [form |-> "other", arg |-> "document.title.length > 0"]
CheckLists == {<<CheckTitle, CheckOther>>}

\* An HTML document is the set of selectors it matches.
HtmlDocs == {{}, {"#title"}}

\* The answers of the evaluator to a notification POST ("exc": the request
\* raised, e.g. a timeout or a refused connection).
PostAnswers == {"200", "201", "500", "exc"}

VARIABLES
    studentSecret,  \* settings.STUDENT_SECRET
    rows,           \* the TaskRecord table: id -> row
    resp,           \* what receive_task answered to the latest request
    acked,          \* ids whose acknowledgement has been sent to the caller
    pc,             \* per slot: position of process_task
    ident,          \* per slot: task_identifier passed to process_task
    taskObj,        \* per slot: task_obj of process_task
    attempt,        \* per slot: loop counter of the running stage
    generated,      \* per slot: the payload returned by _stage_generate
    pushed,         \* per slot: (repo_url, commit_sha, pages_url) of stage 2
    notifiedOk,     \* per slot: result of _stage_notify_eval
    calls,          \* per slot: kinds of external calls issued so far
    published,      \* per slot: HTML written to the remote repository
    failedAt,       \* per slot: the stage whose exception reached the handler
    post,           \* per slot: the latest notification POST of _safe_post
    text,           \* the model's raw answer handed to _extract_json_from_text
    parsed,         \* what _extract_json_from_text returned for it
    genIn,          \* the arguments and the model's answer of generate_manifest
    genOut,         \* what generate_manifest returned or raised
    att,            \* _process_attachments: its arguments, loop state and result
    prompt,         \* generate_manifest: the prompt it builds from its arguments
    chat,           \* chat_completion: the requests sent and what the caller got
    hub,            \* create_repo_and_push: the remote host and the requests sent
    poll,           \* enable_pages_and_wait: the requests of one call and its result
    store,          \* create_or_update_file: the remote files and the writes sent
    picked          \* _extract_selectors_from_checks: its argument and its result

appVars == <<studentSecret, rows, resp, acked, pc, ident, taskObj, attempt, generated,
             pushed, notifiedOk, calls, published, failedAt, post>>

\* The state of the functions that are exercised on their own: those of
\* llm_generator.py and llm_client.py, which nothing in app/ calls, and the
\* attachment and publishing helpers, step by step.
funVars == <<text, parsed, genIn, genOut, att, prompt, chat, hub, poll, store, picked>>

vars == <<studentSecret, rows, resp, acked, pc, ident, taskObj, attempt, generated,
          pushed, notifiedOk, calls, published, failedAt, post, funVars>>

workerVars == <<pc, ident, taskObj, attempt, generated, pushed, notifiedOk, calls,
                published, failedAt>>

\* ----------------------------------------------------------- the task table
NoIdent == [kind |-> "none", id |-> 0, brief |-> ""]
NoObj == [kind |-> "none", id |-> 0, brief |-> "", evaluation_url |-> "", task |-> ""]
NoGen == [ok |-> FALSE, html |-> {}]
NoPush == [repo_url |-> None, commit_sha |-> None, pages_url |-> None]

\* models.TaskRecord as receive_task builds it.
TaskRecord(payload) ==
    [task |-> payload.task,
     brief |-> payload.brief,
     checks |-> payload.checks,
     evaluation_url |-> payload.evaluation_url,
     status |-> "queued",
     repo_name |-> None,
     commit_sha |-> None,
     pages_url |-> None,
     attempts |-> 0]

\* update_task_status without its 'commit_sha' branch: the commit id of the
\* extra fields is dropped, as the 'error' field is.
update_task_status_no_sha(table, task_id, status, extra) ==
    IF task_id \notin DOMAIN table
    THEN table
    ELSE [table EXCEPT ![task_id] =
            [@ EXCEPT !.status = status,
                      !.repo_name = IF "repo_url" \in DOMAIN extra
                                    THEN extra.repo_url ELSE @,
                      !.pages_url = IF "pages_url" \in DOMAIN extra
                                    THEN extra.pages_url ELSE @,
                      !.attempts = @ + 1]]

\* update_task_status without the lookup by id: the status is written to
\* every row of the table.
update_task_status_all_rows(table, task_id, status, extra) ==
    [i \in DOMAIN table |-> [table[i] EXCEPT !.status = status]]

\* db.update_task_status: the table after the call.
update_task_status(table, task_id, status, extra) ==
    IF task_id \notin DOMAIN table
    THEN table
    ELSE [table EXCEPT ![task_id] =
            [@ EXCEPT !.status = status,
                      !.repo_name = IF "repo_url" \in DOMAIN extra
                                    THEN extra.repo_url ELSE @,
                      !.pages_url = IF "pages_url" \in DOMAIN extra
                                    THEN extra.pages_url ELSE @,
                      !.commit_sha = IF "commit_sha" \in DOMAIN extra
                                     THEN extra.commit_sha ELSE @,
                      !.attempts = @ + 1]]

\* worker._update_db_status: update_task_status is imported, so the row of
\* the object's id is written; for task_obj = None the setattr raises and the
\* exception is swallowed.
UpdateDbStatus(table, obj, status, extra) ==
    IF obj.kind = "none"
    THEN table
    ELSE update_task_status(table, obj.id, status, extra)

\* db.get_task_by_id as process_task uses it: the task object of a slot.
get_task_by_id(table, w) ==
    IF w \in DOMAIN table
    THEN [kind |-> "record", id |-> w, brief |-> table[w].brief,
          evaluation_url |-> table[w].evaluation_url, task |-> table[w].task]
    ELSE NoObj

\* ------------------------------------------------------------ app/main.py
\* _validate_secret without 'if not expected: return False'.
_validate_secret_no_empty_check(incoming) == incoming = studentSecret

_validate_secret(incoming) ==
    IF studentSecret = "" THEN FALSE ELSE incoming = studentSecret

Payloads ==
    [secret : Secrets, task : TaskNames, brief : Briefs,
     checks : CheckLists, evaluation_url : EvalUrls]

FreeSlots == {w \in Slots : pc[w] = "idle"}
NextSlot == CHOOSE w \in FreeSlots : \A v \in FreeSlots : w <= v

\* receive_task with a wrong secret: 403, nothing else.
RejectTask ==
    \E payload \in Payloads :
        /\ ~_validate_secret(payload.secret)
        /\ resp' = [code |-> 403, task_id |-> 0, secret |-> payload.secret]
        /\ UNCHANGED <<funVars, post, studentSecret, rows, acked, workerVars>>

\* receive_task with the right secret: the row is committed, process_task is
\* added to the response's background tasks, the handler returns.
AcceptTask ==
    \E payload \in Payloads :
        /\ _validate_secret(payload.secret)
        /\ FreeSlots # {}
        /\ LET id == NextSlot IN
            /\ rows' = [i \in DOMAIN rows \cup {id} |->
                          IF i = id THEN TaskRecord(payload) ELSE rows[i]]
            /\ pc' = [pc EXCEPT ![id] = "scheduled"]
            /\ ident' = [ident EXCEPT ![id] = [kind |-> "int", id |-> id, brief |-> ""]]
            /\ resp' = [code |-> 200, task_id |-> id, secret |-> payload.secret]
        /\ UNCHANGED <<funVars, post, studentSecret, acked, taskObj, attempt, generated, pushed,
                       notifiedOk, calls, published, failedAt>>

\* The background task started from inside the handler: it runs although the
\* response has not been sent.
RunBeforeResponse(w) ==
    /\ pc[w] = "scheduled"
    /\ pc' = [pc EXCEPT ![w] = "ready"]
    /\ UNCHANGED <<funVars, post, studentSecret, rows, resp, acked, ident, taskObj, attempt,
                   generated, pushed, notifiedOk, calls, published, failedAt>>

\* The framework sends the response, then runs the background tasks.
SendResponse(w) ==
    /\ pc[w] = "scheduled"
    /\ acked' = acked \cup {w}
    /\ pc' = [pc EXCEPT ![w] = "ready"]
    /\ UNCHANGED <<funVars, post, studentSecret, rows, resp, ident, taskObj, attempt, generated,
                   pushed, notifiedOk, calls, published, failedAt>>

\* A direct call of process_task (worker.py's documented entry point takes a
\* numeric id or a dict): an id without a row, or a dict whose id is no row id.
DirectIdents ==
    {[kind |-> "int", id |-> 0, brief |-> ""]} \cup
    {[kind |-> "dict", id |-> 0, brief |-> b] : b \in Briefs}

DirectCall ==
    \E i \in DirectIdents :
        /\ FreeSlots # {}
        /\ pc' = [pc EXCEPT ![NextSlot] = "ready"]
        /\ ident' = [ident EXCEPT ![NextSlot] = i]
        /\ UNCHANGED <<funVars, post, studentSecret, rows, resp, acked, taskObj, attempt, generated,
                       pushed, notifiedOk, calls, published, failedAt>>

\* ---------------------------------------- the generator, as the spec has it
\* Basic Structural Checker (spec 4.7): the selector a check names, if any.
ExtractSelector(c) ==
    IF c.form \in {"querySelector", "querySelectorAll"} THEN {c.arg}
    ELSE IF c.form = "getElementById" THEN {"#" \o c.arg}
    ELSE {}

ExtractableSelectors(checks) ==
    UNION {ExtractSelector(checks[i]) : i \in DOMAIN checks}

\* The manifest passes iff every extractable selector is in some HTML file.
BasicStructuralCheck(checks, htmlFiles) ==
    \A sel \in ExtractableSelectors(checks) : \E doc \in htmlFiles : sel \in doc

\* generate_app_from_brief(brief, max_attempts=1): what one call can yield.
\* It is handed the brief alone, so the checks it can verify are none.
generate_app_from_brief(brief) ==
    {[kind |-> "ok", html |-> h] : h \in {d \in HtmlDocs : BasicStructuralCheck(<< >>, {d})}}
    \cup {[kind |-> "invalid", html |-> {}], [kind |-> "raise", html |-> {}]}

_validate_json_schema(r) == r.kind = "ok"

\* ---------------------------------------------------------- app/worker.py
\* process_task up to the try block: load the task, write 'processing'.
LoadTask(table, i) ==
    IF i.kind = "int" THEN get_task_by_id(table, i.id)
    ELSE [kind |-> "dict", id |-> i.id, brief |-> i.brief,
          evaluation_url |-> "", task |-> ""]

StartTask(w) ==
    /\ pc[w] = "ready"
    /\ LET obj == LoadTask(rows, ident[w]) IN
        /\ taskObj' = [taskObj EXCEPT ![w] = obj]
        /\ rows' = UpdateDbStatus(rows, obj, "processing", << >>)
    /\ pc' = [pc EXCEPT ![w] = "generate"]
    /\ attempt' = [attempt EXCEPT ![w] = 1]
    /\ UNCHANGED <<funVars, post, studentSecret, resp, acked, ident, generated, pushed, notifiedOk,
                   calls, published, failedAt>>

\* 'if not brief: raise ValueError': the handler is entered.
BriefMissing(w) ==
    /\ pc[w] = "generate"
    /\ taskObj[w].brief = ""
    /\ pc' = [pc EXCEPT ![w] = "except"]
    /\ failedAt' = [failedAt EXCEPT ![w] = "brief"]
    /\ UNCHANGED <<funVars, post, studentSecret, rows, resp, acked, ident, taskObj, attempt,
                   generated, pushed, notifiedOk, calls, published>>

\* One iteration of _stage_generate's loop.
StageGenerate(w) ==
    /\ pc[w] = "generate"
    /\ taskObj[w].brief # ""
    /\ calls' = [calls EXCEPT ![w] = @ \cup {"llm"}]
    /\ \E r \in generate_app_from_brief(taskObj[w].brief) :
        IF _validate_json_schema(r)
        THEN /\ generated' = [generated EXCEPT ![w] = [ok |-> TRUE, html |-> r.html]]
             /\ pc' = [pc EXCEPT ![w] = "gen_done"]
             /\ UNCHANGED <<attempt, failedAt>>
        ELSE IF attempt[w] < GenMaxAttempts
        THEN /\ attempt' = [attempt EXCEPT ![w] = @ + 1]
             /\ UNCHANGED <<generated, pc, failedAt>>
        ELSE /\ pc' = [pc EXCEPT ![w] = "except"]
             /\ failedAt' = [failedAt EXCEPT ![w] = "generate"]
             /\ UNCHANGED <<generated, attempt>>
    /\ UNCHANGED <<funVars, post, studentSecret, rows, resp, acked, ident, taskObj, pushed,
                   notifiedOk, published>>

\* process_task without its 'generated' write.
WriteGeneratedSkipped(w) ==
    /\ pc[w] = "gen_done"
    /\ pc' = [pc EXCEPT ![w] = "attach"]
    /\ UNCHANGED <<funVars, post, studentSecret, rows, resp, acked, ident, taskObj, attempt,
                   generated, pushed, notifiedOk, calls, published, failedAt>>

\* _update_db_status(task_obj, 'generated', {'meta': 'llm_ok'})
WriteGenerated(w) ==
    /\ pc[w] = "gen_done"
    /\ rows' = UpdateDbStatus(rows, taskObj[w], "generated", [meta |-> "llm_ok"])
    /\ pc' = [pc EXCEPT ![w] = "attach"]
    /\ UNCHANGED <<funVars, post, studentSecret, resp, acked, ident, taskObj, attempt, generated,
                   pushed, notifiedOk, calls, published, failedAt>>

\* _process_attachments: a TaskRecord is no dict and the dicts of the model
\* carry no attachments, so the payload is returned as it is.
ProcessAttachments(w) ==
    /\ pc[w] = "attach"
    /\ pc' = [pc EXCEPT ![w] = "push"]
    /\ attempt' = [attempt EXCEPT ![w] = 1]
    /\ UNCHANGED <<funVars, post, studentSecret, rows, resp, acked, ident, taskObj, generated,
                   pushed, notifiedOk, calls, published, failedAt>>

\* repo_hint of process_task, and the repository name create_repo_and_push
\* derives from it (spaces to dashes, lower case).
RepoHint(obj) == IF obj.kind = "record" /\ obj.task # "" THEN obj.task ELSE "tds-task"
RepoName(hint) == IF hint = "demo task" THEN "demo-task" ELSE hint

\* wait_for_index: poll until index.html answers 200 or timeout seconds have
\* passed.  liveAt is the request that gets the 200 (0: none does), latency
\* the seconds one request takes.  The loop state is <<n, elapsed>>: the
\* request being issued and the seconds since start.
wait_for_index(liveAt, latency) ==
    LET loop[s \in Nat \X Nat] ==
          LET n == s[1]
              elapsed == s[2]
          IN  IF liveAt # 0 /\ n >= liveAt THEN [live |-> TRUE, polls |-> n]
              ELSE IF elapsed + latency > IndexTimeout
              THEN [live |-> FALSE, polls |-> n]
              ELSE loop[<<n + 1, elapsed + latency + IndexSleep>>]
    IN  loop[<<1, 0>>]

\* The poll loop of enable_pages_and_wait: a ping that raises counts as a
\* ping that is not 200; both exits return (the caller gets the URL).
pages_poll(liveAt, latency) ==
    LET loop[s \in Nat \X Nat] ==
          LET n == s[1]
              elapsed == s[2]
          IN  IF liveAt # 0 /\ n >= liveAt THEN [live |-> TRUE, polls |-> n]
              ELSE IF elapsed + latency > PagesTimeout
              THEN [live |-> FALSE, polls |-> n]
              ELSE loop[<<n + 1, elapsed + latency + PagesPollInterval>>]
    IN  loop[<<1, 0>>]

\* What the repository host does during one call of create_repo_and_push.
\*   fail      : the step that raises ("none": no step does)
\*                 repo  : create_repo (repo_exists, the create request)
\*                 file  : a content write, before index.html is written
\*                 index : a request of wait_for_index
\*                 pages : the request that enables hosting
\*   indexAt, pagesAt : the poll that first sees 200 (0: none)
\*   latency   : seconds one poll request takes
\*   pushed_at : the repository's pushed_at field
LiveAts == 0..MaxLiveAt
Latencies == {0, PingTimeout}
PushEnvs ==
    [fail : {"repo", "file"}, indexAt : {1}, pagesAt : {1}, latency : {0},
     pushed_at : {"2024-01-01T00:00:00Z"}]
    \cup
    [fail : {"index", "pages"}, indexAt : LiveAts, pagesAt : {1}, latency : Latencies,
     pushed_at : {"2024-01-01T00:00:00Z"}]
    \cup
    [fail : {"none"}, indexAt : LiveAts, pagesAt : LiveAts, latency : Latencies,
     pushed_at : {"2024-01-01T00:00:00Z", None}]

\* The steps of create_repo_and_push under env, as far as the host decides
\* them: whether a step raised, whether the files were written before it,
\* whether both poll loops returned, and the commit id the host reported.
HostRun(env) ==
    LET idx == wait_for_index(env.indexAt, env.latency)
        site == pages_poll(env.pagesAt, env.latency)
    IN  IF env.fail \in {"repo", "file"}
        THEN [raised |-> TRUE, written |-> FALSE, polled |-> FALSE, pushed_at |-> None]
        ELSE IF env.fail = "index"
        THEN [raised |-> TRUE, written |-> TRUE, polled |-> FALSE, pushed_at |-> None]
        ELSE IF env.fail = "pages"
        THEN [raised |-> TRUE, written |-> TRUE, polled |-> idx.polls >= 1,
              pushed_at |-> None]
        ELSE [raised |-> FALSE, written |-> TRUE,
              polled |-> idx.polls >= 1 /\ site.polls >= 1,
              pushed_at |-> env.pushed_at]

\* Every run the host can produce.
HostRuns == {HostRun(env) : env \in PushEnvs}

\* create_repo_and_push(generated, repo_hint) for one run of the host:
\* whether it raised, whether the files were written, the triple it returns.
create_repo_and_push(w, run) ==
    LET repo == RepoName(RepoHint(taskObj[w])) IN
    IF run.raised
    THEN [raised |-> TRUE, written |-> run.written, repo_url |-> None,
          commit_sha |-> None, pages_url |-> None]
    ELSE [raised |-> FALSE, written |-> run.written,
          repo_url |-> "https://github.com/" \o GITHUB_OWNER \o "/" \o repo,
          commit_sha |-> run.pushed_at,
          pages_url |-> "https://" \o GITHUB_OWNER \o ".github.io/" \o repo \o "/"]

\* _stage_repo_push whose exhausted loop returns instead of raising: the
\* error is recorded and the pipeline goes on with the empty triple.
StageRepoPushSwallow(w) ==
    /\ pc[w] = "push"
    /\ calls' = [calls EXCEPT ![w] = @ \cup {"repo"}]
    /\ \E run \in HostRuns :
        LET r == create_repo_and_push(w, run) IN
        /\ published' = [published EXCEPT ![w] =
                            IF r.written THEN <<generated[w].html>> ELSE @]
        /\ IF ~r.raised /\ r.commit_sha # None
           THEN /\ pushed' = [pushed EXCEPT ![w] =
                     [repo_url |-> r.repo_url, commit_sha |-> r.commit_sha,
                      pages_url |-> r.pages_url]]
                /\ pc' = [pc EXCEPT ![w] = "push_done"]
                /\ UNCHANGED <<attempt, failedAt>>
           ELSE IF attempt[w] < PushMaxAttempts
           THEN /\ attempt' = [attempt EXCEPT ![w] = @ + 1]
                /\ UNCHANGED <<pushed, pc, failedAt>>
           ELSE /\ pc' = [pc EXCEPT ![w] = "push_done"]
                /\ failedAt' = [failedAt EXCEPT ![w] = "push"]
                /\ UNCHANGED <<pushed, attempt>>
    /\ UNCHANGED <<funVars, post, studentSecret, rows, resp, acked, ident, taskObj, generated,
                   notifiedOk>>

\* One iteration of _stage_repo_push's loop.
StageRepoPush(w) ==
    /\ pc[w] = "push"
    /\ calls' = [calls EXCEPT ![w] = @ \cup {"repo"}]
    /\ \E run \in HostRuns :
        LET r == create_repo_and_push(w, run) IN
        /\ published' = [published EXCEPT ![w] =
                            IF r.written THEN <<generated[w].html>> ELSE @]
        /\ IF ~r.raised /\ r.commit_sha # None
           THEN /\ pushed' = [pushed EXCEPT ![w] =
                     [repo_url |-> r.repo_url, commit_sha |-> r.commit_sha,
                      pages_url |-> r.pages_url]]
                /\ pc' = [pc EXCEPT ![w] = "push_done"]
                /\ UNCHANGED <<attempt, failedAt>>
           ELSE IF attempt[w] < PushMaxAttempts
           THEN /\ attempt' = [attempt EXCEPT ![w] = @ + 1]
                /\ UNCHANGED <<pushed, pc, failedAt>>
           ELSE /\ pc' = [pc EXCEPT ![w] = "except"]
                /\ failedAt' = [failedAt EXCEPT ![w] = "push"]
                /\ UNCHANGED <<pushed, attempt>>
    /\ UNCHANGED <<funVars, post, studentSecret, rows, resp, acked, ident, taskObj, generated,
                   notifiedOk>>

\* _update_db_status(task_obj, 'pushed', {repo_url, commit_sha, pages_url})
WritePushed(w) ==
    /\ pc[w] = "push_done"
    /\ rows' = UpdateDbStatus(rows, taskObj[w], "pushed",
                 [repo_url |-> pushed[w].repo_url, commit_sha |-> pushed[w].commit_sha,
                  pages_url |-> pushed[w].pages_url])
    /\ pc' = [pc EXCEPT ![w] = "notify"]
    /\ attempt' = [attempt EXCEPT ![w] = 1]
    /\ UNCHANGED <<funVars, post, studentSecret, resp, acked, ident, taskObj, generated, pushed,
                   notifiedOk, calls, published, failedAt>>

\* 'if not evaluation_url': the notify stage is skipped.
SkipNotify(w) ==
    /\ pc[w] = "notify"
    /\ taskObj[w].evaluation_url = ""
    /\ pc' = [pc EXCEPT ![w] = "finish"]
    /\ UNCHANGED <<funVars, post, studentSecret, rows, resp, acked, ident, taskObj, attempt,
                   generated, pushed, notifiedOk, calls, published, failedAt>>

\* What _safe_post remembers of its n-th request: the answer, and the seconds
\* it sleeps before the next one (none after a 200, which returns at once).
Posted(n, answer) ==
    [n |-> n, answer |-> answer, delay |-> IF answer = "200" THEN 0 ELSE 2 ^ (n - 1)]

\* _safe_post without a retry budget: after the last attempt the loop starts
\* over.
SafePostForever(w) ==
    /\ pc[w] = "notify"
    /\ taskObj[w].evaluation_url # ""
    /\ calls' = [calls EXCEPT ![w] = @ \cup {"post"}]
    /\ \E answer \in PostAnswers :
        /\ post' = [post EXCEPT ![w] = Posted(attempt[w], answer)]
        /\ IF answer = "200"
           THEN /\ notifiedOk' = [notifiedOk EXCEPT ![w] = "True"]
                /\ pc' = [pc EXCEPT ![w] = "notify_done"]
                /\ UNCHANGED attempt
           ELSE /\ attempt' = [attempt EXCEPT ![w] = IF @ < NotifyRetries THEN @ + 1 ELSE 1]
                /\ UNCHANGED <<notifiedOk, pc>>
    /\ UNCHANGED <<funVars, studentSecret, rows, resp, acked, ident, taskObj, generated,
                   pushed, published, failedAt>>

\* _safe_post without its try/except: a request that raises reaches the
\* handler of process_task.
SafePostRaising(w) ==
    /\ pc[w] = "notify"
    /\ taskObj[w].evaluation_url # ""
    /\ calls' = [calls EXCEPT ![w] = @ \cup {"post"}]
    /\ \E answer \in PostAnswers :
        /\ post' = [post EXCEPT ![w] = Posted(attempt[w], answer)]
        /\ IF answer = "200"
           THEN /\ notifiedOk' = [notifiedOk EXCEPT ![w] = "True"]
                /\ pc' = [pc EXCEPT ![w] = "notify_done"]
                /\ UNCHANGED <<attempt, failedAt>>
           ELSE IF answer = "exc"
           THEN /\ pc' = [pc EXCEPT ![w] = "except"]
                /\ failedAt' = [failedAt EXCEPT ![w] = "notify"]
                /\ UNCHANGED <<attempt, notifiedOk>>
           ELSE IF attempt[w] < NotifyRetries
           THEN /\ attempt' = [attempt EXCEPT ![w] = @ + 1]
                /\ UNCHANGED <<notifiedOk, pc, failedAt>>
           ELSE /\ notifiedOk' = [notifiedOk EXCEPT ![w] = "False"]
                /\ pc' = [pc EXCEPT ![w] = "notify_done"]
                /\ UNCHANGED <<attempt, failedAt>>
    /\ UNCHANGED <<funVars, studentSecret, rows, resp, acked, ident, taskObj, generated,
                   pushed, published>>

\* One iteration of _safe_post's loop, called with retries=5 by
\* _stage_notify_eval: status 200 returns True, anything else goes on.
SafePost(w) ==
    /\ pc[w] = "notify"
    /\ taskObj[w].evaluation_url # ""
    /\ calls' = [calls EXCEPT ![w] = @ \cup {"post"}]
    /\ \E answer \in PostAnswers :
        /\ post' = [post EXCEPT ![w] = Posted(attempt[w], answer)]
        /\ IF answer = "200"
           THEN /\ notifiedOk' = [notifiedOk EXCEPT ![w] = "True"]
                /\ pc' = [pc EXCEPT ![w] = "notify_done"]
                /\ UNCHANGED attempt
           ELSE IF attempt[w] < NotifyRetries
           THEN /\ attempt' = [attempt EXCEPT ![w] = @ + 1]
                /\ UNCHANGED <<notifiedOk, pc>>
           ELSE /\ notifiedOk' = [notifiedOk EXCEPT ![w] = "False"]
                /\ pc' = [pc EXCEPT ![w] = "notify_done"]
                /\ UNCHANGED attempt
    /\ UNCHANGED <<funVars, studentSecret, rows, resp, acked, ident, taskObj, generated,
                   pushed, published, failedAt>>

\* 'notified' or 'notify_failed', with {'notified_to': evaluation_url}.
WriteNotify(w) ==
    /\ pc[w] = "notify_done"
    /\ rows' = UpdateDbStatus(rows, taskObj[w],
                 IF notifiedOk[w] = "True" THEN "notified" ELSE "notify_failed",
                 [notified_to |-> taskObj[w].evaluation_url])
    /\ pc' = [pc EXCEPT ![w] = "finish"]
    /\ UNCHANGED <<funVars, post, studentSecret, resp, acked, ident, taskObj, attempt, generated,
                   pushed, notifiedOk, calls, published, failedAt>>

\* _update_db_status(task_obj, 'done', {repo_url, pages_url}); the function ends.
WriteDone(w) ==
    /\ pc[w] = "finish"
    /\ rows' = UpdateDbStatus(rows, taskObj[w], "done",
                 [repo_url |-> pushed[w].repo_url, pages_url |-> pushed[w].pages_url])
    /\ pc' = [pc EXCEPT ![w] = "returned"]
    /\ UNCHANGED <<funVars, post, studentSecret, resp, acked, ident, taskObj, attempt, generated,
                   pushed, notifiedOk, calls, published, failedAt>>

\* The except block ending in 'raise': the exception leaves process_task.
HandleExceptionReraise(w) ==
    /\ pc[w] = "except"
    /\ rows' = UpdateDbStatus(rows, taskObj[w], "failed", [error |-> failedAt[w]])
    /\ pc' = [pc EXCEPT ![w] = "raised"]
    /\ UNCHANGED <<funVars, post, studentSecret, resp, acked, ident, taskObj, attempt, generated,
                   pushed, notifiedOk, calls, published, failedAt>>

\* The except block: 'failed' with {'error': str(e)}, then return.
HandleException(w) ==
    /\ pc[w] = "except"
    /\ rows' = UpdateDbStatus(rows, taskObj[w], "failed", [error |-> failedAt[w]])
    /\ pc' = [pc EXCEPT ![w] = "returned"]
    /\ UNCHANGED <<funVars, post, studentSecret, resp, acked, ident, taskObj, attempt, generated,
                   pushed, notifiedOk, calls, published, failedAt>>

process_task(w) ==
    \/ StartTask(w)
    \/ BriefMissing(w)
    \/ StageGenerate(w)
    \/ WriteGenerated(w)
    \/ ProcessAttachments(w)
    \/ StageRepoPush(w)
    \/ WritePushed(w)
    \/ SkipNotify(w)
    \/ SafePost(w)
    \/ WriteNotify(w)
    \/ WriteDone(w)
    \/ HandleException(w)

\* ----------------------------------------- app/llm_generator.py: the parser
\* A text is a sequence of characters; the fence (three backticks) and the
\* word json are kept as one character each; Q is the double quote.
Q == "'"
Fence == "fence"
FenceTags == {"json", "js", "html"}

\* The first index from i on that holds no blank (Len(s) + 1: none does).
SkipWs(s, i) ==
    CHOOSE j \in i..(Len(s) + 1) :
        /\ j = Len(s) + 1 \/ s[j] # " "
        /\ \A k \in i..(j - 1) : s[k] = " "

\* s[i] opens a string: the index after its closing quote (0: it never closes).
StrEnd(s, i) ==
    IF \E j \in (i + 1)..Len(s) : s[j] = Q
    THEN (CHOOSE j \in (i + 1)..Len(s) :
            s[j] = Q /\ \A k \in (i + 1)..(j - 1) : s[k] # Q) + 1
    ELSE 0

\* The JSON grammar over these characters.  end[<<"v", i>>]: the index after
\* the value that starts at i; end[<<"p", i>>]: the index after the closing
\* brace of an object whose next key starts at i; 0: no parse.
JsonEnd(s) ==
    LET n == Len(s)
        end[x \in {"v", "p"} \X (1..(n + 1))] ==
            LET i == x[2] IN
            IF i > n THEN 0
            ELSE IF x[1] = "v"
            THEN IF s[i] = Q THEN StrEnd(s, i)
                 ELSE IF s[i] = "{"
                 THEN LET j == SkipWs(s, i + 1) IN
                      IF j > n THEN 0
                      ELSE IF s[j] = "}" THEN j + 1
                      ELSE end[<<"p", j>>]
                 ELSE 0
            ELSE IF s[i] # Q THEN 0
                 ELSE LET k == StrEnd(s, i) IN
                      IF k = 0 THEN 0
                      ELSE LET c == SkipWs(s, k) IN
                           IF c > n \/ s[c] # ":" THEN 0
                           ELSE LET v == end[<<"v", SkipWs(s, c + 1)>>] IN
                                IF v = 0 THEN 0
                                ELSE LET e == SkipWs(s, v) IN
                                     IF e > n THEN 0
                                     ELSE IF s[e] = "}" THEN e + 1
                                     ELSE IF s[e] = "," /\ SkipWs(s, e + 1) <= n
                                     THEN end[<<"p", SkipWs(s, e + 1)>>]
                                     ELSE 0
    IN  end

\* The value a JSON text denotes, written without the blanks between tokens.
Canon(s) ==
    LET n == Len(s)
        rest[x \in (1..(n + 1)) \X BOOLEAN] ==
            LET i == x[1]
                inStr == x[2]
            IN  IF i > n THEN << >>
                ELSE IF s[i] = Q THEN <<Q>> \o rest[<<i + 1, ~inStr>>]
                ELSE IF s[i] = " " /\ ~inStr THEN rest[<<i + 1, inStr>>]
                ELSE <<s[i]>> \o rest[<<i + 1, inStr>>]
    IN  rest[<<1, FALSE>>]

NoJson == [ok |-> FALSE, val |-> << >>]

\* json.loads: the value of s, or the failure of the parse.
json_loads(s) ==
    LET i == SkipWs(s, 1) IN
    IF i > Len(s) THEN NoJson
    ELSE LET e == JsonEnd(s)[<<"v", i>>] IN
         IF e # 0 /\ SkipWs(s, e) = Len(s) + 1
         THEN [ok |-> TRUE, val |-> Canon(s)]
         ELSE NoJson

\* re.sub(fence (?:json|js|html)?, "", text): every fence goes, with the tag
\* that follows it.
StripFences(s) ==
    LET n == Len(s)
        rest[i \in 1..(n + 1)] ==
            IF i > n THEN << >>
            ELSE IF s[i] = Fence
            THEN IF i < n /\ s[i + 1] \in FenceTags THEN rest[i + 2] ELSE rest[i + 1]
            ELSE <<s[i]>> \o rest[i + 1]
    IN  rest[1]

\* str.strip()
Strip(s) ==
    LET a == SkipWs(s, 1)
        b == IF a > Len(s) THEN 0
             ELSE CHOOSE j \in a..Len(s) :
                    s[j] # " " /\ \A k \in (j + 1)..Len(s) : s[k] = " "
    IN  IF a > Len(s) THEN << >> ELSE SubSeq(s, a, b)

\* re.sub(r",\s*}", "}", candidate): a comma, blanks and a closing brace
\* become the brace (the alphabet has no bracket for the second re.sub).
CleanTrailingCommas(s) ==
    LET n == Len(s)
        rest[i \in 1..(n + 1)] ==
            IF i > n THEN << >>
            ELSE IF s[i] = "," /\ SkipWs(s, i + 1) <= n /\ s[SkipWs(s, i + 1)] = "}"
            THEN <<"}">> \o rest[SkipWs(s, i + 1) + 1]
            ELSE <<s[i]>> \o rest[i + 1]
    IN  rest[1]

\* _extract_json_from_text
_extract_json_from_text(raw) ==
    LET t == Strip(StripFences(raw))
        n == Len(t)
        braces == {i \in 1..n : t[i] = "{"}
        start == CHOOSE i \in braces : \A j \in braces : i <= j
        closers == {i \in 1..n : t[i] = "}"}
        last == CHOOSE i \in closers : \A j \in closers : j <= i
        \* the fallback after the loop
        whole ==
            IF json_loads(t).ok THEN json_loads(t)
            ELSE IF closers # {} /\ last > start
            THEN json_loads(SubSeq(t, start, last))
            ELSE NoJson
        \* the loop from index i on with the depth reached before it
        scan[x \in (1..(n + 1)) \X ((0 - n)..n)] ==
            LET i == x[1]
                depth == x[2]
            IN  IF i > n THEN whole
                ELSE IF t[i] = "{" THEN scan[<<i + 1, depth + 1>>]
                ELSE IF t[i] = "}"
                THEN IF depth - 1 = 0
                     THEN LET candidate == SubSeq(t, start, i)
                              cleaned == CleanTrailingCommas(candidate)
                          IN  IF json_loads(candidate).ok THEN json_loads(candidate)
                              ELSE IF json_loads(cleaned).ok THEN json_loads(cleaned)
                              ELSE scan[<<i + 1, 0>>]
                     ELSE scan[<<i + 1, depth - 1>>]
                ELSE scan[<<i + 1, depth>>]
    IN  IF raw = << >> \/ braces = {} THEN NoJson ELSE scan[<<start, 0>>]

\* ---------------------------------- app/llm_generator.py: generate_manifest
\* index.html is a sequence of tags; an element no repair looks into is one
\* tag. The tags are written with single quotes.
MainEnd == "</main>"
BodyEnd == "</body>"
TableEnd == "</table>"
TbodyTag == "<tbody>"
TbodyEnd == "</tbody>"
SkeletonHead == "<thead><tr><th>Column 1</th><th>Column 2</th></tr></thead>"
CsvHead == "<thead><tr><th scope='col'>h</th></tr></thead>"
CsvRow == "<tr><td>r</td></tr>"
Placeholder == "<tr><td>Sample</td><td>0</td></tr>"
OldRow == "<tr><td>old</td></tr>"
Heads == {SkeletonHead, CsvHead}
RowTags == {CsvRow, Placeholder, OldRow}

\* The opening tag of a table with a quoted id, the one id_pattern finds.
TableIds == {"sales", "total", "theme-toggle"}
TableTag(id) ==
    CASE id = "sales" -> "<table id='sales'>"
      [] id = "total" -> "<table id='total'>"
      [] id = "theme-toggle" -> "<table id='theme-toggle'>"
\* An opening tag with an unquoted id: HTML accepts it, id_pattern does not.
BareTableTag(id) ==
    CASE id = "sales" -> "<table id=sales>"
      [] id = "total" -> "<table id=total>"
      [] id = "theme-toggle" -> "<table id=theme-toggle>"

ToggleBtn == "<button id='theme-toggle'>Toggle Theme</button>"
LightDiv == "<div class='light-theme' style='display:block;'></div>"
DarkDiv == "<div class='dark-theme' style='display:none;'></div>"
DarkDivShown == "<div class='dark-theme'></div>"
ThemeScript == "<script>querySelectorAll('.light-theme') querySelectorAll('.dark-theme')</script>"
ThemeCss == "<style>.dark-theme{} .light-theme{} #theme-toggle{}</style>"

\* The checks of a task, as the strings the generator searches.
CheckSales == "#sales tbody tr"
CheckTotal == "#total tbody tr"
CheckToggle == "#theme-toggle"
CheckDark == ".dark-theme"
CheckLight == ".light-theme"
CheckH1 == "h1"

Range(s) == {s[i] : i \in 1..Len(s)}
Least(S) == CHOOSE x \in S : \A y \in S : x <= y

\* "tbody tr" in c
HasTbodyTr(c) == c \in {CheckSales, CheckTotal}

\* re.findall(r"#([A-Za-z0-9_-]+)", c): the id a check names, if any.
CheckId(c) ==
    CASE c = CheckSales -> <<"sales">>
      [] c = CheckTotal -> <<"total">>
      [] c = CheckToggle -> <<"theme-toggle">>
      [] OTHER -> << >>

\* _extract_table_ids_from_checks: an id before tbody is appended as found,
\* an id alone only when new.
_extract_table_ids_from_checks(checks) ==
    LET ids[k \in 0..Len(checks)] ==
            IF k = 0 THEN << >>
            ELSE LET c == checks[k]
                     found == IF HasTbodyTr(c) THEN CheckId(c) ELSE << >>
                     sofar == ids[k - 1] \o found
                 IN  IF CheckId(c) # << >> /\ CheckId(c)[1] \notin Range(sofar)
                     THEN sofar \o CheckId(c)
                     ELSE sofar
    IN  ids[Len(checks)]

\* _csv_to_table_rows on a CSV of so many non-blank lines, the header first.
max_rows == 50
_csv_to_table_rows(lines) ==
    IF lines = 0 THEN << >>
    ELSE <<CsvHead, TbodyTag>>
            \o [i \in 1..(IF lines - 1 > max_rows THEN max_rows ELSE lines - 1) |-> CsvRow]
            \o <<TbodyEnd>>

\* content.replace(tok, block + tok): every occurrence, from the left.
ReplaceAll(s, tok, block) ==
    LET n == Len(s)
        hits(i) == {j \in i..n : s[j] = tok}
        rest[i \in 1..(n + 1)] ==
            IF hits(i) = {} THEN SubSeq(s, i, n)
            ELSE SubSeq(s, i, Least(hits(i)) - 1) \o block \o <<tok>>
                    \o rest[Least(hits(i)) + 1]
    IN  rest[1]

\* Before </main> if there is one, else before </body>, else at the end.
InsertBlock(content, block) ==
    IF MainEnd \in Range(content) THEN ReplaceAll(content, MainEnd, block)
    ELSE IF BodyEnd \in Range(content) THEN ReplaceAll(content, BodyEnd, block)
    ELSE content \o block

\* re.sub of <tbody ... </tbody> by a body of the given rows: each <tbody>
\* up to the first </tbody> after it, from the left.
TbodySub(inner, trs) ==
    LET n == Len(inner)
        close(i) == {j \in (i + 1)..n : inner[j] = TbodyEnd}
        hits(i) == {j \in i..n : inner[j] = TbodyTag /\ close(j) # {}}
        rest[i \in 1..(n + 1)] ==
            IF hits(i) = {} THEN SubSeq(inner, i, n)
            ELSE SubSeq(inner, i, Least(hits(i)) - 1)
                    \o <<TbodyTag>> \o trs \o <<TbodyEnd>>
                    \o rest[Least(close(Least(hits(i)))) + 1]
    IN  rest[1]

\* id_pattern.search(content)
TableFound(s, id) ==
    \E i \in 1..Len(s) : \E j \in (i + 1)..Len(s) :
        s[i] = TableTag(id) /\ s[j] = TableEnd

\* _replace_table_for_id
_replace_table_for_id(inner, header_html, tr_html) ==
    IF TbodyTag \in Range(inner)
    THEN (IF header_html # << >> /\ Range(inner) \cap Heads = {}
          THEN header_html ELSE << >>) \o TbodySub(inner, tr_html)
    ELSE header_html \o <<TbodyTag>> \o tr_html \o <<TbodyEnd>>

\* The function of the second re.sub: a body with the placeholder row is
\* added to a table that has none, and replaces the bodies of one that has.
PlaceholderInto(inner) ==
    IF TbodyTag \notin Range(inner)
    THEN inner \o <<TbodyTag, Placeholder, TbodyEnd>>
    ELSE TbodySub(inner, <<Placeholder>>)

\* id_pattern.sub(function, content): every table of that id, up to its
\* first </table>, gets the function of what is inside, and the search goes
\* on after it. The function is _replace_table_for_id with the rows of the
\* CSV (fromCsv) or the one that puts the placeholder.
TableSub(s, id, fromCsv, header_html, tr_html) ==
    LET n == Len(s)
        close(i) == {j \in (i + 1)..n : s[j] = TableEnd}
        hits(i) == {j \in i..n : s[j] = TableTag(id) /\ close(j) # {}}
        rest[i \in 1..(n + 1)] ==
            IF hits(i) = {} THEN SubSeq(s, i, n)
            ELSE LET a == Least(hits(i))
                     b == Least(close(a))
                     inner == SubSeq(s, a + 1, b - 1)
                 IN  SubSeq(s, i, a)
                        \o (IF fromCsv
                            THEN _replace_table_for_id(inner, header_html, tr_html)
                            ELSE PlaceholderInto(inner))
                        \o <<TableEnd>> \o rest[b + 1]
    IN  rest[1]

\* re.search(r"<tbody[\s\S]*?<tr[\s\S]*?</tr>", content): a row anywhere
\* after some <tbody>, the row of a <thead> included.
RowAfterTbody(s) ==
    \E i \in 1..Len(s) : \E j \in (i + 1)..Len(s) :
        s[i] = TbodyTag /\ s[j] \in RowTags \cup Heads

\* The body of the loop over table_ids.
RepairTable(content, id, lines) ==
    LET skeleton == <<TableTag(id), SkeletonHead, TbodyTag, TbodyEnd, TableEnd>>
        c1 == IF TableFound(content, id) THEN content
              ELSE InsertBlock(content, skeleton)
        csvRows == _csv_to_table_rows(lines)
        IsHead(x) == x \in Heads
        IsRow(x) == x \in RowTags
        c2 == IF lines > 0
              THEN TableSub(c1, id, TRUE, SelectSeq(csvRows, IsHead), SelectSeq(csvRows, IsRow))
              ELSE c1
    IN  IF TbodyTag \in Range(c2) /\ ~RowAfterTbody(c2)
        THEN TableSub(c2, id, FALSE, << >>, << >>)
        ELSE c2

\* str.lower() on the paths in use.
Lower(path) == IF path = "INDEX.HTML" THEN "index.html" ELSE path

\* The table repair of generate_manifest.
TableRepair(files, checks, lines) ==
    LET ids == _extract_table_ids_from_checks(checks)
        done[k \in 0..Len(ids)] ==
            [content \in {f.content : f \in Range(files)} |->
                IF k = 0 THEN content
                ELSE RepairTable(done[k - 1][content], ids[k], lines)]
    IN  IF \E k \in 1..Len(checks) : HasTbodyTr(checks[k])
        THEN [k \in 1..Len(files) |->
                IF Lower(files[k].path) = "index.html"
                THEN [files[k] EXCEPT !.content = done[Len(ids)][@]]
                ELSE files[k]]
        ELSE files

\* The three substring tests of the theme repair.
DarkMarks == {DarkDiv, DarkDivShown, ThemeScript, ThemeCss}
LightMarks == {LightDiv, ThemeScript, ThemeCss}
ToggleMarks == {ToggleBtn, ThemeCss, TableTag("theme-toggle")}
theme_html == <<ToggleBtn, LightDiv, DarkDiv, ThemeScript>>

\* The same pass with no test for what is there.
ThemeRepairContentBlind(content) == InsertBlock(content, theme_html)

ThemeRepairContent(content) ==
    IF /\ Range(content) \cap DarkMarks # {}
       /\ Range(content) \cap LightMarks # {}
       /\ Range(content) \cap ToggleMarks # {}
    THEN content
    ELSE InsertBlock(content, theme_html)

\* theme_required that holds for every check list.
theme_required_always(checks) == Len(checks) >= 0

theme_required(checks) ==
    \E k \in 1..Len(checks) : checks[k] \in {CheckDark, CheckLight, CheckToggle}

\* The theme repair of generate_manifest: the first index.html only.
ThemeRepair(files, checks) ==
    LET index == {k \in 1..Len(files) : Lower(files[k].path) = "index.html"}
    IN  IF theme_required(checks) /\ index # {}
        THEN [files EXCEPT ![Least(index)].content = ThemeRepairContent(@)]
        ELSE files

\* The manifest dictionary parsed from the answer: the keys it has, and under
\* "files" a list of entries, each with the keys it has.
Entry(path, content) ==
    [keys |-> {"path", "content"}, path |-> path, content |-> content, encoding |-> ""]
Dict(files) == [parsed |-> TRUE, keys |-> {"files"}, files |-> files]

\* FileEntry and ManifestSchema: files, path and content are required, of
\* any length; encoding defaults to utf-8.
ManifestSchema(d) ==
    IF "files" \notin d.keys THEN [ok |-> FALSE, field |-> "files", files |-> << >>]
    ELSE IF \E k \in 1..Len(d.files) : "path" \notin d.files[k].keys
    THEN [ok |-> FALSE, field |-> "path", files |-> << >>]
    ELSE IF \E k \in 1..Len(d.files) : "content" \notin d.files[k].keys
    THEN [ok |-> FALSE, field |-> "content", files |-> << >>]
    ELSE [ok |-> TRUE, field |-> None,
          files |-> [k \in 1..Len(d.files) |->
                        [path |-> d.files[k].path,
                         content |-> d.files[k].content,
                         encoding |-> IF "encoding" \in d.files[k].keys
                                      THEN d.files[k].encoding ELSE "utf-8"]]]

base_style == <<"body{}">>

\* The default style sheet is appended when no entry is style.css.
AddDefaultStyle(files) ==
    IF \E k \in 1..Len(files) : files[k].path = "style.css" THEN files
    ELSE Append(files, [path |-> "style.css", content |-> base_style, encoding |-> "utf-8"])

NotGenerated == [stage |-> "pending", error |-> None, files |-> << >>]
Raised(error) == [stage |-> "raised", error |-> error, files |-> << >>]

\* generate_manifest from the parsed answer on.
generate_manifest(in) ==
    IF ~in.manifest.parsed \/ in.manifest.keys = {}
    THEN Raised("LLM did not return valid JSON manifest")
    ELSE LET m == ManifestSchema(in.manifest)
         IN  IF ~m.ok THEN Raised("Invalid manifest structure")
             ELSE [stage |-> "returned", error |-> None,
                   files |-> ThemeRepair(
                                TableRepair(AddDefaultStyle(m.files), in.checks, in.lines),
                                in.checks)]

\* --------------------------------------- app/worker.py: the attachments
\* _download_with_retries is called with attempts=3.
DownloadAttempts == 3

AttUrlA == "https://a.example/data.csv"
AttUrlB == "https://b.example/logo.png"
AttDataUri == "data:text/csv;base64,aCxoCnIscg=="
HttpUrls == {AttUrlA, AttUrlB}

\* A file of app_code: a str or bytes.
Str(data) == [kind |-> "str", data |-> data]
Bytes(data) == [kind |-> "bytes", data |-> data]

\* What a URL serves when it answers 200: the body and its content type.
Served(url) ==
    IF url = AttUrlA THEN [content |-> "h,h r,r", ctype |-> "text/csv"]
    ELSE [content |-> "PNG", ctype |-> "application/octet-stream"]

\* The data: branch of _download_with_retries: no request is made.
DecodeDataUri(url) == [content |-> "h,h r,r", ctype |-> "text/csv"]

\* os.path.splitext(name)[1].lower() on the names in use.
Ext(name) ==
    CASE name = "data.csv" -> ".csv"
      [] name = "index.html" -> ".html"
      [] name = "logo.png" -> ".png"
      [] OTHER -> ""

\* The choice between text and bytes.
is_text(ctype, name) ==
    \/ ctype \in {"text/csv", "text/plain", "application/json", "application/javascript"}
    \/ Ext(name) \in {".txt", ".md", ".html", ".csv", ".json", ".js"}

\* What is stored for a downloaded attachment.
Stored(got, name) ==
    IF is_text(got.ctype, name) THEN Str(got.content) ELSE Bytes(got.content)

\* The placeholder file of an attachment that could not be downloaded.
AttPlaceholder(name) == Str("Attachment " \o name \o " could not be downloaded.")

\* app_code as _process_attachments starts with it: the mapping, or the
\* string kept as index.html.
AppCodeOf(generated_payload) ==
    IF generated_payload.isdict THEN generated_payload.files
    ELSE ("index.html" :> Str(generated_payload.text))

\* attachments = task_obj.get('attachments') or [] for a dict, [] otherwise.
AttachmentsOf(obj) == IF obj.kind = "dict" THEN obj.attachments ELSE << >>

\* _process_attachments up to its loop.
AttachBegin ==
    /\ att.pc = "called"
    /\ IF AttachmentsOf(att.obj) = << >>
       THEN att' = [att EXCEPT !.pc = "returned", !.result = att.generated]
       ELSE att' = [att EXCEPT !.pc = "loop", !.i = 1, !.attempt = 1,
                               !.app_code = AppCodeOf(att.generated)]
    /\ UNCHANGED <<text, parsed, genIn, genOut, prompt, chat, hub, poll, store, picked, appVars>>

\* 'if not name or not url: continue'
AttachSkip ==
    /\ att.pc = "loop"
    /\ att.i <= Len(att.obj.attachments)
    /\ LET d == att.obj.attachments[att.i] IN d.name = "" \/ d.url = ""
    /\ att' = [att EXCEPT !.i = @ + 1]
    /\ UNCHANGED <<text, parsed, genIn, genOut, prompt, chat, hub, poll, store, picked, appVars>>

\* An attachment given as a data: URI.
AttachDataUri ==
    /\ att.pc = "loop"
    /\ att.i <= Len(att.obj.attachments)
    /\ LET d == att.obj.attachments[att.i] IN
        /\ d.name # "" /\ d.url = AttDataUri
        /\ att' = [att EXCEPT !.i = @ + 1,
                              !.app_code = (d.name :> Stored(DecodeDataUri(d.url), d.name)) @@ @]
    /\ UNCHANGED <<text, parsed, genIn, genOut, prompt, chat, hub, poll, store, picked, appVars>>

\* One request of the loop of _download_with_retries, and what follows it:
\* the file is stored, or the next attempt is due, or the placeholder is
\* stored.
AttachRequest ==
    /\ att.pc = "loop"
    /\ att.i <= Len(att.obj.attachments)
    /\ LET d == att.obj.attachments[att.i]
           status == att.answers[d.url][att.attempt]
       IN
        /\ d.name # "" /\ d.url \in HttpUrls
        /\ IF status = "200"
           THEN att' = [att EXCEPT !.requests[d.url] = @ + 1, !.i = @ + 1, !.attempt = 1,
                                   !.app_code = (d.name :> Stored(Served(d.url), d.name)) @@ @]
           ELSE IF att.attempt < DownloadAttempts
           THEN att' = [att EXCEPT !.requests[d.url] = @ + 1, !.attempt = @ + 1]
           ELSE att' = [att EXCEPT !.requests[d.url] = @ + 1, !.i = @ + 1, !.attempt = 1,
                                   !.app_code = (d.name :> AttPlaceholder(d.name)) @@ @]
    /\ UNCHANGED <<text, parsed, genIn, genOut, prompt, chat, hub, poll, store, picked, appVars>>

\* generated['app_code'] = app_code; return generated
AttachReturn ==
    /\ att.pc = "loop"
    /\ att.i > Len(att.obj.attachments)
    /\ att' = [att EXCEPT !.pc = "returned",
                          !.result = [isdict |-> TRUE, files |-> att.app_code, text |-> ""]]
    /\ UNCHANGED <<text, parsed, genIn, genOut, prompt, chat, hub, poll, store, picked, appVars>>

\* ------------------------------ app/llm_generator.py: the prompt of a round
\* A brief is a sequence of pieces of text, a check is one piece.
SeedMark == "${seed}"
CheckSeed == "document.title.includes('${seed}')"
CheckCanvas == "<canvas id=chart>"
CheckData == "img.dataset.seed"
CheckBlank == ""

\* re.findall(r"\.([A-Za-z0-9_-]+)", c)
CheckClasses(c) ==
    CASE c = CheckDark -> {"dark-theme"}
      [] c = CheckLight -> {"light-theme"}
      [] c = CheckSeed -> {"title", "includes"}
      [] c = CheckData -> {"dataset", "seed"}
      [] OTHER -> {}

\* re.findall(r"<([A-Za-z0-9]+)", c); the pattern for querySelector('tag')
\* asks for a backslash before the bracket and matches no check.
CheckTags(c) == IF c = CheckCanvas THEN {"canvas"} ELSE {}

\* re.findall(r"dataset\.([A-Za-z0-9_-]+)", c)
CheckDataAttrs(c) == IF c = CheckData THEN {"seed"} ELSE {}

\* The runs of letters (re.findall(r"[A-Za-z]+", chain)) a check starts
\* with, before its first character that is no letter, digit, underscore,
\* > or blank; for a check that starts with an id, those after the id.
LeadWords(c) ==
    CASE c = CheckSales -> <<"tbody", "tr">>
      [] c = CheckTotal -> <<"tbody", "tr">>
      [] c = CheckH1 -> <<"h">>
      [] c = CheckSeed -> <<"document">>
      [] c = CheckData -> <<"img">>
      [] OTHER -> << >>
\* Whether a check has such a character after those words.
EndsChain(c) == c \in {CheckDark, CheckLight, CheckSeed, CheckCanvas, CheckData}
StartsWithId(c) == c \in {CheckSales, CheckTotal, CheckToggle}

\* The compound hints: re.findall over the checks joined by blanks, so the
\* chain after an id runs on into the checks that follow.
CompoundHints(checks) ==
    LET n == Len(checks)
        \* the words of the chain from check j on
        run[j \in 1..(n + 1)] ==
            IF j > n \/ StartsWithId(checks[j]) THEN << >>
            ELSE IF EndsChain(checks[j]) THEN LeadWords(checks[j])
            ELSE LeadWords(checks[j]) \o run[j + 1]
        chain(k) == LeadWords(checks[k]) \o run[k + 1]
        IsHint(h) == h.tags # << >>
    IN  SelectSeq([k \in 1..n |->
                     IF StartsWithId(checks[k])
                     THEN [id |-> CheckId(checks[k])[1], tags |-> chain(k)]
                     ELSE [id |-> "", tags |-> << >>]],
                  IsHint)

\* _extract_selectors_from_checks for a list of checks: the ids, the
\* classes, the tags, the data attributes, the hints.
_extract_selectors_from_checks(checks) ==
    [ids |-> UNION {Range(CheckId(checks[k])) : k \in 1..Len(checks)},
     classes |-> UNION {CheckClasses(checks[k]) : k \in 1..Len(checks)},
     tags |-> UNION {CheckTags(checks[k]) : k \in 1..Len(checks)},
     data_attrs |-> UNION {CheckDataAttrs(checks[k]) : k \in 1..Len(checks)},
     compound_hints |-> CompoundHints(checks)]

\* The prompt generate_manifest sends: the template filled with the brief
\* and what is appended to it, the nonce, the round and the checks.
BuildPrompt(brief, checks, nonce, round_num) ==
    LET sel == _extract_selectors_from_checks(checks)
    IN  [brief |-> brief,
         ids |-> sel.ids,
         classes |-> sel.classes,
         compound_hints |-> sel.compound_hints,
         theme_note |-> \E k \in 1..Len(checks) :
                            checks[k] \in {CheckDark, CheckLight, CheckToggle},
         nonce |-> nonce,
         round |-> round_num,
         checks_text |-> checks]

\* ------------------------------------------------------- app/llm_client.py
\* stop_after_attempt(3) and wait_exponential(multiplier=1, min=1, max=8) of
\* the retry decorator of _post_chat.
PostChatAttempts == 3
WaitMin == 1
WaitMax == 8

\* stop_after_attempt: no further attempt after this one.
stop_after_more_attempts(n) == n >= PostChatAttempts + 2
stop_after_attempt(n) == n >= PostChatAttempts

\* wait_exponential: the seconds slept after the n-th attempt has failed.
wait_exponential(n) ==
    LET w == 2 ^ (n - 1)
    IN  IF w < WaitMin THEN WaitMin ELSE IF w > WaitMax THEN WaitMax ELSE w

\* What the endpoint does to one request: a status, or the request raises
\* (a refused connection, a timeout).
ChatAnswers == {"200", "400", "429", "500", "exc"}

\* A JSON value of the response, as far as chat_completion tells values
\* apart: a string, a list of strings, null, an object.
JStr(s) == [type |-> "str", s |-> s, items |-> << >>]
JList(items) == [type |-> "list", s |-> "", items |-> items]
JNull == [type |-> "null", s |-> "", items |-> << >>]
JObj == [type |-> "dict", s |-> "", items |-> << >>]

\* str.strip() on the texts in use.
StripStr(s) == IF s = " hi " THEN "hi" ELSE s

Returned(value) == [kind |-> "return", value |-> value, error |-> None]
Raises(error) == [kind |-> "raise", value |-> "", error |-> error]

\* value.strip() of chat_completion: a value that is no string has no strip
\* and the except clause turns the AttributeError into LLMError.
StripValue(v) ==
    IF v.type = "str" THEN Returned(StripStr(v.s)) ELSE Raises("LLMError")

\* The loop over 'output' and 'result'.
FromKey(data, key) ==
    IF key \notin data.keys THEN Raises("none")
    ELSE LET v == IF key = "output" THEN data.output ELSE data.result
         IN  IF v.type = "str" THEN Returned(StripStr(v.s))
             ELSE IF v.type = "list" /\ v.items # << >> THEN Returned(StripStr(v.items[1]))
             ELSE Raises("none")

\* The extraction of chat_completion from a response object.
ExtractText(data) ==
    IF "choices" \in data.keys /\ data.choices # << >>
    THEN LET choice == data.choices[1]
         IN  IF "message" \in choice.keys /\ choice.message.isdict
             THEN IF "content" \in choice.message.keys
                  THEN StripValue(choice.message.content)
                  ELSE Returned("")
             ELSE IF "text" \in choice.keys THEN StripValue(choice.text)
             ELSE Returned("")
    ELSE IF FromKey(data, "output").kind = "return" THEN FromKey(data, "output")
    ELSE IF FromKey(data, "result").kind = "return" THEN FromKey(data, "result")
    ELSE Raises("LLMError")

\* One attempt of _post_chat under the retry decorator: the request is sent;
\* a status below 400 hands the response object to chat_completion; a
\* status from 400 on (LLMError) or a request that raises is retried after
\* the wait, and after the last attempt RetryError is raised to the caller
\* (the decorator is built without reraise).
PostChat ==
    /\ chat.pc = "post"
    /\ \E answer \in ChatAnswers :
        LET n == chat.attempt
            sent == Append(chat.sent, answer)
        IN  IF answer = "200"
            THEN chat' = [chat EXCEPT !.sent = sent, !.pc = "extract"]
            ELSE IF stop_after_attempt(n)
            THEN chat' = [chat EXCEPT !.sent = sent, !.pc = "done",
                                      !.out = Raises("RetryError")]
            ELSE chat' = [chat EXCEPT !.sent = sent, !.attempt = n + 1,
                                      !.slept = Append(@, wait_exponential(n))]
    /\ UNCHANGED <<text, parsed, genIn, genOut, att, prompt, hub, poll, store, picked, appVars>>

\* chat_completion after _post_chat has returned.
ChatExtract ==
    /\ chat.pc = "extract"
    /\ chat' = [chat EXCEPT !.pc = "done", !.out = ExtractText(chat.resp)]
    /\ UNCHANGED <<text, parsed, genIn, genOut, att, prompt, hub, poll, store, picked, appVars>>

\* ------------------------------------------------------------ the publisher
\* create_repo_and_push under the four attempts of _stage_repo_push, one
\* request of github_utils at a time.  hub.exists and hub.readme are the
\* remote repository (README.md as the sequence of its blocks, << >> when the
\* file is absent), hub.files the items of app_code in dict order, hub.log
\* the steps the current run has completed.

\* What a repository created with auto_init holds as README.md.
AutoInitReadme == <<"auto_init">>

\* generated.get("readme", "") of the payload.
GeneratedReadme == <<"generated">>

\* The attempt raised at 'step': _stage_repo_push sleeps and runs
\* create_repo_and_push again, or raises the last error after the last
\* attempt.
PushRaised(h, step) ==
    IF h.attempt < PushMaxAttempts
    THEN [h EXCEPT !.attempt = @ + 1, !.pc = "exists", !.next = 1,
                   !.log = << >>, !.cause = step]
    ELSE [h EXCEPT !.pc = "done", !.out = "failed", !.cause = step]

\* The answers the name check can get: 200 only for a repository that is
\* there, 404 only for one that is not, an error status (rate limit, server
\* error) or three connection errors for either.
ExistsAnswers(h) == (IF h.exists THEN {"200"} ELSE {"404"}) \cup {"403", "500", "exc"}

\* repo_exists as called by create_repo: any status other than 200 is
\* reported as absent; three connection errors raise.
RepoExists ==
    /\ hub.pc = "exists"
    /\ \E answer \in ExistsAnswers(hub) :
        hub' = IF answer = "exc" THEN PushRaised(hub, "repo")
               ELSE IF answer = "200"
               THEN [hub EXCEPT !.pc = "file", !.log = Append(@, "repo")]
               ELSE [hub EXCEPT !.pc = "create"]
    /\ UNCHANGED <<text, parsed, genIn, genOut, att, prompt, chat, poll, store, picked, appVars>>

\* The POST to /user/repos of create_repo: the host refuses a name that is
\* taken (422) and the attempt raises; otherwise the repository is created
\* with its first commit, or the request fails.
CreateRepo ==
    /\ hub.pc = "create"
    /\ \E answer \in (IF hub.exists THEN {"422"} ELSE {"201", "500"}) :
        hub' = IF answer = "201"
               THEN [hub EXCEPT !.pc = "file", !.exists = TRUE,
                                !.readme = AutoInitReadme,
                                !.creates = Append(@, FALSE),
                                !.log = Append(@, "repo")]
               ELSE PushRaised([hub EXCEPT !.creates = Append(@, hub.exists)], "repo")
    /\ UNCHANGED <<text, parsed, genIn, genOut, att, prompt, chat, poll, store, picked, appVars>>

\* create_or_update_file / create_or_update_binary_file for the next item of
\* app_code: the file is written, or the call raises out of the loop.
PushAppFile ==
    /\ hub.pc = "file"
    /\ LET f == hub.files[hub.next]
       IN  \E ok \in BOOLEAN :
            hub' = IF ok
                   THEN [hub EXCEPT !.log = Append(@, f.kind),
                                    !.next = @ + 1,
                                    !.pc = IF hub.next = Len(hub.files)
                                           THEN "readme" ELSE "file"]
                   ELSE PushRaised(hub, f.kind)
    /\ UNCHANGED <<text, parsed, genIn, genOut, att, prompt, chat, poll, store, picked, appVars>>

\* create_or_update_file for README.md: the content sent is the readme of
\* the payload, with the sha of the remote file when there is one, so the
\* remote file becomes that content.
PushReadme ==
    /\ hub.pc = "readme"
    /\ \E ok \in BOOLEAN :
        hub' = IF ok
               THEN [hub EXCEPT !.readme = GeneratedReadme,
                                !.log = Append(@, "readme"), !.pc = "license"]
               ELSE PushRaised(hub, "readme")
    /\ UNCHANGED <<text, parsed, genIn, genOut, att, prompt, chat, poll, store, picked, appVars>>

\* create_or_update_file for LICENSE.
PushLicense ==
    /\ hub.pc = "license"
    /\ \E ok \in BOOLEAN :
        hub' = IF ok
               THEN [hub EXCEPT !.log = Append(@, "license"), !.pc = "pages"]
               ELSE PushRaised(hub, "license")
    /\ UNCHANGED <<text, parsed, genIn, genOut, att, prompt, chat, poll, store, picked, appVars>>

\* enable_pages_and_wait: the POST or the PUT is accepted and the function
\* returns the pages url, live or not, or both are refused and it raises.
EnablePages ==
    /\ hub.pc = "pages"
    /\ \E ok \in BOOLEAN :
        hub' = IF ok
               THEN [hub EXCEPT !.log = Append(@, "pages"), !.pc = "done",
                                !.out = "pushed"]
               ELSE PushRaised(hub, "pages")
    /\ UNCHANGED <<text, parsed, genIn, genOut, att, prompt, chat, poll, store, picked, appVars>>

\* ------------------------------------------------------------ the site poll
\* enable_pages_and_wait from the request that enables hosting on, one
\* request at a time.  poll.elapsed is time.time() - start in seconds,
\* poll.pings the pings sent, poll.last the answer of the latest one.

\* The bodies an accepted enable request can carry, and pages_url for each:
\* html_url of the body, or the default URL of the owner's site.
PagesBodies == {"empty", "html_url", "no_html_url", "non_json"}
DefaultPagesUrl(repo) == "https://" \o GITHUB_OWNER \o ".github.io/" \o repo \o "/"
PagesUrl(body, repo) == IF body = "html_url" THEN "https://site.example/" ELSE DefaultPagesUrl(repo)

\* What one ping of the site can give: a status, a connection error, or no
\* answer within the 8 seconds of timeout.
PingAnswers == {"200", "404", "exc", "timeout"}
PingLatency(answer) == IF answer = "timeout" THEN PingTimeout ELSE 0

\* 'except requests.RequestException: pass' around the ping, and the same
\* handler catching no more than requests.Timeout.
PingCaughtTimeoutOnly(answer) == answer = "timeout"
PingCaught(answer) == answer \in {"exc", "timeout"}

\* The POST that enables hosting and, when it is refused, the PUT: accepted
\* by one of them the function computes pages_url and starts polling, refused
\* by both it raises.
EnableRequest ==
    /\ poll.pc = "enable"
    /\ \/ \E body \in PagesBodies :
            poll' = [poll EXCEPT !.pc = "ping", !.accepted = TRUE,
                                 !.url = PagesUrl(body, poll.repo)]
       \/ poll' = [poll EXCEPT !.pc = "done", !.out = Raises("HTTPError")]
    /\ UNCHANGED <<text, parsed, genIn, genOut, att, prompt, chat, hub, store, picked, appVars>>

\* One turn of the poll loop: the ping, the return on 200, the return when
\* more than timeout seconds have passed, else the sleep of poll_interval.
Ping ==
    /\ poll.pc = "ping"
    /\ \E answer \in PingAnswers :
        LET now == poll.elapsed + PingLatency(answer)
            sent == [poll EXCEPT !.pings = @ + 1, !.last = answer, !.elapsed = now]
        IN  poll' = IF answer = "200"
                    THEN [sent EXCEPT !.pc = "done", !.out = Returned(poll.url)]
                    ELSE IF answer # "404" /\ ~PingCaught(answer)
                    THEN [sent EXCEPT !.pc = "done", !.out = Raises("RequestException")]
                    ELSE IF now > PagesTimeout
                    THEN [sent EXCEPT !.pc = "done", !.out = Returned(poll.url)]
                    ELSE [sent EXCEPT !.elapsed = now + PagesPollInterval]
    /\ UNCHANGED <<text, parsed, genIn, genOut, att, prompt, chat, hub, store, picked, appVars>>

\* --------------------------------- _extract_selectors_from_checks, on its own
\* The value passed as checks: a list of strings, or None when the request
\* carries no checks (TaskPayload.checks is optional).
ChecksList(items) == [absent |-> FALSE, items |-> items]
ChecksNone == [absent |-> TRUE, items |-> << >>]

\* The call with that value.  'for c in checks or []' runs over nothing for
\* None; the join of the compound pass is handed checks itself.
JoinChecks(arg) == IF arg.absent THEN Raises("TypeError") ELSE Returned(arg.items)

ExtractSelectors ==
    /\ picked.pc = "called"
    /\ picked' = [picked EXCEPT !.pc = "done",
                  !.out = IF JoinChecks(picked.checks).kind = "raise"
                          THEN JoinChecks(picked.checks)
                          ELSE Returned(_extract_selectors_from_checks(picked.checks.items))]
    /\ UNCHANGED <<text, parsed, genIn, genOut, att, prompt, chat, hub, poll, store, appVars>>

\* ------------------------------------------------------------ the file writes
\* The content writes of create_repo_and_push under the attempts of
\* _stage_repo_push, one request of create_or_update_file at a time.
\* store.remote maps a path to the sha and the content the host holds (sha 0:
\* no such file; every change of a file gives it the next sha), store.paths
\* are the paths written in order, store.puts the writes sent so far.
\* store.faults counts the requests that failed or were answered with an
\* error and store.edits the changes made by others; store.clean tells that
\* the current attempt has met neither.

\* Requests that may go wrong in one run of the stage, and changes of a file
\* made by others meanwhile.
MaxFaults == 4
MaxEdits == 1

GeneratedContent == "generated"
EditedContent == "edited"

\* The attempt raised: _stage_repo_push runs create_repo_and_push again from
\* its first file, or raises after the last attempt; and a stage that gives
\* up at the first failure.
StoreRaisedNoRetry(st) == [st EXCEPT !.pc = "done", !.out = "failed"]
StoreRaised(st) ==
    IF st.attempt < PushMaxAttempts
    THEN [st EXCEPT !.attempt = @ + 1, !.pc = "sha", !.next = 1, !.seen = 0,
                    !.lookup = "", !.clean = TRUE]
    ELSE [st EXCEPT !.pc = "done", !.out = "failed"]

\* _get_file_sha: the sha of the answer for 200, None (0) for 404, and None
\* as well for every other status and for requests that raise; and a lookup
\* that finds no file at all.
ShaNeverFound(sha, answer) == 0
ShaSeen(sha, answer) == IF answer = "200" THEN sha ELSE 0

\* The answers a lookup can get for a file of that sha.
LookupAnswers(sha, mayFail) ==
    (IF sha = 0 THEN {"404"} ELSE {"200"}) \cup (IF mayFail THEN {"error"} ELSE {})

\* What the host answers to a write that carries 'sent' (0: no sha) for a
\* file of sha 'sha': it takes a write for a new file without sha and one for
\* an existing file with its current sha, and refuses the others.
HostAnswer(sha, sent) ==
    IF sha = sent THEN "201"
    ELSE IF sent = 0 THEN "422"
    ELSE "409"

\* The file after an accepted write.
FileWritten(file) == [sha |-> file.sha + 1, content |-> GeneratedContent]

\* After a write that was accepted: the next path, or the end of the run.
StoreAccepted(st) ==
    IF st.next = Len(st.paths)
    THEN [st EXCEPT !.pc = "done", !.out = "pushed"]
    ELSE [st EXCEPT !.pc = "sha", !.next = @ + 1, !.seen = 0, !.lookup = ""]

\* The path being written.
StorePath == store.paths[store.next]

\* The write as recorded.
PutRecord(st, answer) ==
    [path |-> st.paths[st.next], sha |-> st.seen, lookup |-> st.lookup,
     answer |-> answer, attempt |-> st.attempt]

\* _get_file_sha for the path.
GetFileSha ==
    /\ store.pc = "sha"
    /\ \E answer \in LookupAnswers(store.remote[StorePath].sha, store.faults < MaxFaults) :
        store' = [store EXCEPT !.pc = "put",
                               !.seen = ShaSeen(store.remote[StorePath].sha, answer),
                               !.lookup = answer,
                               !.faults = IF answer = "error" THEN @ + 1 ELSE @,
                               !.clean = @ /\ answer # "error"]
    /\ UNCHANGED <<text, parsed, genIn, genOut, att, prompt, chat, hub, poll, picked, appVars>>

\* Somebody else changes the file between the lookup and the write.
ExternalEdit ==
    /\ store.pc = "put"
    /\ store.edits < MaxEdits
    /\ store' = [store EXCEPT !.remote[StorePath] =
                                  [sha |-> @.sha + 1, content |-> EditedContent],
                              !.edits = @ + 1, !.clean = FALSE]
    /\ UNCHANGED <<text, parsed, genIn, genOut, att, prompt, chat, hub, poll, picked, appVars>>

\* The PUT of create_or_update_file through the session: accepted or refused
\* by the host, answered with a server error, or lost to a connection error
\* or a timeout before or after the host has applied it.
PutFile ==
    /\ store.pc = "put"
    /\ LET file == store.remote[StorePath]
           answer == HostAnswer(file.sha, store.seen)
           fault == [store EXCEPT !.faults = @ + 1, !.clean = FALSE]
       IN  \/ /\ answer = "201"
              /\ store' = StoreAccepted([store EXCEPT
                              !.remote[StorePath] = FileWritten(file),
                              !.puts = Append(@, PutRecord(store, answer))])
           \/ /\ answer # "201"
              /\ store' = StoreRaised([store EXCEPT
                              !.puts = Append(@, PutRecord(store, answer))])
           \/ /\ store.faults < MaxFaults
              /\ store' = StoreRaised([fault EXCEPT
                              !.puts = Append(@, PutRecord(store, "500"))])
           \/ /\ store.faults < MaxFaults
              /\ \E applied \in {answer = "201", FALSE} :
                    store' = [fault EXCEPT
                                !.pc = "put_again",
                                !.remote[StorePath] = IF applied THEN FileWritten(file) ELSE @,
                                !.puts = Append(@, PutRecord(store, "exc"))]
    /\ UNCHANGED <<text, parsed, genIn, genOut, att, prompt, chat, hub, poll, picked, appVars>>

\* The one more PUT after a connection error, with the same payload.
PutAgain ==
    /\ store.pc = "put_again"
    /\ LET file == store.remote[StorePath]
           answer == HostAnswer(file.sha, store.seen)
       IN  \/ /\ answer = "201"
              /\ store' = StoreAccepted([store EXCEPT
                              !.remote[StorePath] = FileWritten(file),
                              !.puts = Append(@, PutRecord(store, answer))])
           \/ /\ answer # "201"
              /\ store' = StoreRaised([store EXCEPT
                              !.puts = Append(@, PutRecord(store, answer))])
           \/ /\ store.faults < MaxFaults
              /\ store' = StoreRaised([store EXCEPT
                              !.faults = @ + 1,
                              !.puts = Append(@, PutRecord(store, "exc"))])
    /\ UNCHANGED <<text, parsed, genIn, genOut, att, prompt, chat, hub, poll, picked, appVars>>

\* No request sent yet.
NoPost == [n |-> 0, answer |-> None, delay |-> 0]

\* The functions of llm_generator.py are not running.
FunIdle ==
    /\ text = << >>
    /\ parsed = << >>
    /\ genIn = << >>
    /\ genOut = << >>
    /\ att = << >>
    /\ prompt = << >>
    /\ chat = << >>
    /\ hub = << >>
    /\ poll = << >>
    /\ store = << >>
    /\ picked = << >>

\* The service after start-up: the table is empty, no call is running.
AppInit ==
    /\ studentSecret \in {"", "s3cret"}
    /\ rows = << >>
    /\ resp = [code |-> 0, task_id |-> 0, secret |-> ""]
    /\ acked = {}
    /\ pc = [w \in Slots |-> "idle"]
    /\ ident = [w \in Slots |-> NoIdent]
    /\ taskObj = [w \in Slots |-> NoObj]
    /\ attempt = [w \in Slots |-> 0]
    /\ generated = [w \in Slots |-> NoGen]
    /\ pushed = [w \in Slots |-> NoPush]
    /\ notifiedOk = [w \in Slots |-> None]
    /\ calls = [w \in Slots |-> {}]
    /\ published = [w \in Slots |-> << >>]
    /\ failedAt = [w \in Slots |-> None]
    /\ post = [w \in Slots |-> NoPost]

Init == AppInit /\ FunIdle

Next ==
    \/ RejectTask
    \/ AcceptTask
    \/ DirectCall
    \/ \E w \in Slots : SendResponse(w)
    \/ \E w \in Slots : process_task(w)

Spec == Init /\ [][Next]_vars

\* The worker is a thread of its own and every network call returns: a step
\* of process_task that can be taken is taken; so is the sending of a response.
FairSpec ==
    Spec /\ \A w \in Slots : WF_vars(process_task(w)) /\ WF_vars(SendResponse(w))

\* ------------------------------------- _extract_json_from_text on its own
\* JSON objects the model may answer with: plain, empty, with a brace, a
\* fence or a comma-brace inside a string value, nested, with two keys.
JsonObjects ==
    {<<"{", Q, "a", Q, ":", " ", Q, "a", Q, "}">>,
     <<"{", "}">>,
     <<"{", Q, "a", Q, ":", Q, "}", Q, "}">>,
     <<"{", Q, "a", Q, ":", Q, "{", Q, "}">>,
     <<"{", Q, "a", Q, ":", Q, Fence, Q, "}">>,
     <<"{", Q, "a", Q, ":", Q, ",", "}", Q, "}">>,
     <<"{", Q, "a", Q, ":", "{", Q, "a", Q, ":", Q, "a", Q, "}", "}">>,
     <<"{", Q, "a", Q, ":", Q, "a", Q, ",", " ", Q, "a", "a", Q, ":", Q, "a", Q, "}">>}

\* The text around the object: none, words, words with braces.
PrefixNoise ==
    {<< >>, <<"a", " ">>, <<"{", "a", "}", " ">>, <<"{", " ">>, <<"}", " ">>,
     <<"{", "}", " ">>}
SuffixNoise ==
    {<< >>, <<" ", "a">>, <<" ", "}">>, <<" ", "{">>, <<" ", "{", "a", "}">>}

Embed(obj, pre, suf, fenced) ==
    IF fenced
    THEN pre \o <<Fence, "json", " ">> \o obj \o <<" ", Fence>> \o suf
    ELSE pre \o obj \o suf

ParseInputs ==
    {[object |-> o, raw |-> Embed(o, pre, suf, f)] :
        o \in JsonObjects, pre \in PrefixNoise, suf \in SuffixNoise, f \in BOOLEAN}

NotParsed == [ok |-> FALSE, val |-> <<"pending">>]

ParseInit ==
    /\ AppInit
    /\ studentSecret = ""
    /\ text \in ParseInputs
    /\ parsed = NotParsed
    /\ genIn = << >>
    /\ genOut = << >>
    /\ att = << >>
    /\ prompt = << >>
    /\ chat = << >>
    /\ hub = << >>
    /\ poll = << >>
    /\ store = << >>
    /\ picked = << >>

ExtractJson ==
    /\ parsed = NotParsed
    /\ parsed' = _extract_json_from_text(text.raw)
    /\ UNCHANGED <<text, genIn, genOut, att, prompt, chat, hub, poll, store, picked, appVars>>

ParseNext == ExtractJson

ParseSpec == ParseInit /\ [][ParseNext]_vars

\* ---------------------------------------------- generate_manifest on its own
\* What the model may put in index.html.
IndexShapes ==
    {<< >>,
     <<"x">>,
     <<"<main>", "x", MainEnd>>,
     <<"<main>", MainEnd, "<main>", MainEnd>>,
     <<"<body>", "x", BodyEnd>>,
     <<"<main>", LightDiv, MainEnd>>,
     <<ThemeCss, "<main>", MainEnd>>,
     <<"<main>", ToggleBtn, LightDiv, DarkDiv, ThemeScript, MainEnd>>,
     <<"<main>", TableTag("sales"), TbodyTag, TbodyEnd, TableEnd, MainEnd>>,
     <<"<main>", TableTag("sales"), OldRow, TableEnd, MainEnd>>,
     <<"<main>", TableTag("sales"), TbodyTag, TbodyEnd, TbodyTag, TbodyEnd, TableEnd, MainEnd>>,
     <<"<main>", BareTableTag("sales"), TbodyTag, OldRow, TbodyEnd, TableEnd, MainEnd>>,
     <<"<main>", TableTag("sales"), TbodyTag, TbodyEnd, TableEnd,
       TableTag("total"), TbodyTag, TbodyEnd, TableEnd, MainEnd>>}

\* What the parser may hand over: nothing, an empty object, an object without
\* files, lists of entries with and without their fields.
ManifestDicts ==
    {[parsed |-> FALSE, keys |-> {}, files |-> << >>],
     [parsed |-> TRUE, keys |-> {}, files |-> << >>],
     [parsed |-> TRUE, keys |-> {"name"}, files |-> << >>],
     Dict(<< >>),
     Dict(<<Entry("", << >>)>>),
     Dict(<<Entry("app.js", <<"x">>)>>),
     Dict(<<[Entry("index.html", <<"x">>) EXCEPT !.keys = {"content"}]>>),
     Dict(<<[Entry("index.html", <<"x">>) EXCEPT !.keys = {"path"}]>>),
     Dict(<<[Entry("logo.png", <<"x">>) EXCEPT !.keys = {"path", "content", "encoding"},
                                               !.encoding = "base64"]>>),
     Dict(<<Entry("index.html", <<"x">>), Entry("index.html", <<"<main>", MainEnd>>)>>),
     Dict(<<Entry("index.html", <<"x">>), Entry("style.css", <<"x">>)>>),
     Dict(<<Entry("INDEX.HTML", <<"<main>", MainEnd>>)>>)}
    \cup {Dict(<<Entry("index.html", c)>>) : c \in IndexShapes}

GenCheckLists ==
    {<< >>, <<CheckH1>>, <<CheckSales>>, <<CheckSales, CheckTotal>>,
     <<CheckSales, CheckSales>>, <<CheckDark, CheckToggle>>, <<CheckToggle>>, <<CheckLight>>,
     <<CheckSales, CheckDark>>, <<CheckSales, CheckToggle>>}

\* Non-blank lines of the CSV attachment; 0 when there is none.
CsvLines == {0, 2, 4, 51, 52}

GenInputs ==
    [manifest : ManifestDicts, checks : GenCheckLists, lines : CsvLines]

GenInit ==
    /\ AppInit
    /\ studentSecret = ""
    /\ text = << >>
    /\ parsed = << >>
    /\ genIn \in GenInputs
    /\ genOut = NotGenerated
    /\ att = << >>
    /\ prompt = << >>
    /\ chat = << >>
    /\ hub = << >>
    /\ poll = << >>
    /\ store = << >>
    /\ picked = << >>

\* A call of generate_manifest.
Generate ==
    /\ genOut.stage = "pending"
    /\ genOut' = generate_manifest(genIn)
    /\ UNCHANGED <<text, parsed, genIn, att, prompt, chat, hub, poll, store, picked, appVars>>

\* The theme repair applied to the manifest it returned.
ThemeRepairAgain ==
    /\ genOut.stage = "returned"
    /\ genOut' = [genOut EXCEPT !.stage = "repaired again",
                                !.files = ThemeRepair(genOut.files, genIn.checks)]
    /\ UNCHANGED <<text, parsed, genIn, att, prompt, chat, hub, poll, store, picked, appVars>>

GenNext == Generate \/ ThemeRepairAgain

GenSpec == GenInit /\ [][GenNext]_vars

\* ------------------------------------------- _process_attachments on its own
Descriptor(name, url) == [name |-> name, url |-> url]

\* The attachments of a task: none, one, two, some without name or url, one
\* as a data: URI, one named like a generated file.
AttachmentLists ==
    {<< >>,
     <<Descriptor("data.csv", AttUrlA)>>,
     <<Descriptor("data.csv", AttUrlA), Descriptor("logo.png", AttUrlB)>>,
     <<Descriptor("", AttUrlA), Descriptor("logo.png", AttUrlB)>>,
     <<Descriptor("data.csv", ""), Descriptor("logo.png", AttUrlB)>>,
     <<Descriptor("data.csv", AttDataUri)>>,
     <<Descriptor("index.html", AttUrlA)>>}

\* task_obj: the TaskRecord that get_task_by_id returns for an id scheduled
\* by receive_task, or the dict of a direct call.
AttachTaskObjs == [kind : {"record", "dict"}, attachments : AttachmentLists]

\* The payload of _stage_generate: app_code is a mapping or a string.
GeneratedPayloads ==
    {[isdict |-> TRUE, text |-> "",
      files |-> ("index.html" :> Str("generated") @@ "data.csv" :> Str("generated"))],
     [isdict |-> FALSE, text |-> "generated", files |-> << >>]}

\* What each URL answers to the first, second and third request.
UrlAnswers == [HttpUrls -> [1..DownloadAttempts -> {"200", "404"}]]

AttachInit ==
    /\ AppInit
    /\ studentSecret = ""
    /\ text = << >>
    /\ parsed = << >>
    /\ genIn = << >>
    /\ genOut = << >>
    /\ prompt = << >>
    /\ chat = << >>
    /\ hub = << >>
    /\ poll = << >>
    /\ store = << >>
    /\ picked = << >>
    /\ \E obj \in AttachTaskObjs, g \in GeneratedPayloads, answers \in UrlAnswers :
          att = [pc |-> "called", obj |-> obj, generated |-> g, answers |-> answers,
                 i |-> 0, attempt |-> 0, app_code |-> << >>,
                 requests |-> [u \in HttpUrls |-> 0], result |-> g]

AttachNext ==
    \/ AttachBegin
    \/ AttachSkip
    \/ AttachDataUri
    \/ AttachRequest
    \/ AttachReturn

AttachSpec == AttachInit /\ [][AttachNext]_vars

\* ----------------------------------------- the prompt of generate_manifest
PromptBriefs ==
    {<<"Build a page.">>,
     <<"Show ", SeedMark, " in the title.">>,
     <<"Captcha for ", SeedMark, ", seed ", SeedMark, ".">>,
     << >>}

PromptCheckLists ==
    {<< >>, <<CheckH1>>, <<CheckSeed>>, <<CheckSales, CheckH1>>,
     <<CheckToggle, CheckH1, CheckSeed>>, <<CheckDark, CheckSales>>,
     <<CheckSales, CheckSeed, CheckTotal>>}

Nonces == {"n-7f3a", "n-0b1c", ""}
Rounds == {1, 2}

NoPrompt ==
    [brief |-> << >>, ids |-> {}, classes |-> {}, compound_hints |-> << >>,
     theme_note |-> FALSE, nonce |-> "", round |-> 0, checks_text |-> << >>]

PromptInit ==
    /\ AppInit
    /\ studentSecret = ""
    /\ text = << >>
    /\ parsed = << >>
    /\ genIn = << >>
    /\ genOut = << >>
    /\ att = << >>
    /\ chat = << >>
    /\ hub = << >>
    /\ poll = << >>
    /\ store = << >>
    /\ picked = << >>
    /\ \E b \in PromptBriefs, c \in PromptCheckLists, n \in Nonces, r \in Rounds :
          prompt = [pc |-> "called", brief |-> b, checks |-> c, nonce |-> n,
                    round |-> r, sent |-> NoPrompt]

\* generate_manifest up to the call of the model.
SendPrompt ==
    /\ prompt.pc = "called"
    /\ prompt' = [prompt EXCEPT !.pc = "sent",
                     !.sent = BuildPrompt(prompt.brief, prompt.checks, prompt.nonce,
                                          prompt.round)]
    /\ UNCHANGED <<text, parsed, genIn, genOut, att, chat, hub, poll, store, picked, appVars>>

PromptNext == SendPrompt

PromptSpec == PromptInit /\ [][PromptNext]_vars

\* ------------------------------------------------ chat_completion on its own
Message(keys, content) == [isdict |-> TRUE, keys |-> keys, content |-> content]
NoMessage == [isdict |-> FALSE, keys |-> {}, content |-> JNull]
Choice(keys, message, txt) == [keys |-> keys, message |-> message, text |-> txt]
Response(keys, choices, output, result) ==
    [keys |-> keys, choices |-> choices, output |-> output, result |-> result]

\* The response objects of the endpoint: the four fields present and absent
\* in turn, with a text, an empty text, null, a list.
ChatResponses ==
    {Response({"choices"}, <<Choice({"message"}, Message({"content"}, JStr(c)), JNull)>>,
              JNull, JNull) : c \in {"hi", " hi ", ""}}
    \cup
    {Response({"choices"}, <<Choice({"message"}, Message({"content"}, JNull), JNull)>>,
              JNull, JNull),
     Response({"choices"}, <<Choice({"message"}, Message({}, JNull), JNull)>>, JNull, JNull),
     Response({"choices"}, <<Choice({"message", "text"}, Message({}, JNull), JStr("hi"))>>,
              JNull, JNull),
     Response({"choices"}, <<Choice({"message", "text"}, NoMessage, JStr("hi"))>>,
              JNull, JNull),
     Response({"choices"}, <<Choice({"text"}, NoMessage, JStr("hi"))>>, JNull, JNull),
     Response({"choices"}, <<Choice({}, NoMessage, JNull)>>, JNull, JNull),
     Response({"choices", "output"}, <<Choice({}, NoMessage, JNull)>>, JStr("hi"), JNull),
     Response({"choices", "output"}, << >>, JStr("hi"), JNull),
     Response({"choices"}, << >>, JNull, JNull),
     Response({"output"}, << >>, JStr(" hi "), JNull),
     Response({"output"}, << >>, JList(<<"hi">>), JNull),
     Response({"output", "result"}, << >>, JList(<< >>), JStr("hi")),
     Response({"output", "result"}, << >>, JObj, JStr("hi")),
     Response({"output", "result"}, << >>, JStr(""), JStr("hi")),
     Response({"result"}, << >>, JNull, JStr("hi")),
     Response({"result"}, << >>, JNull, JNull),
     Response({}, << >>, JNull, JNull)}

ChatInit ==
    /\ AppInit
    /\ studentSecret = ""
    /\ text = << >>
    /\ parsed = << >>
    /\ genIn = << >>
    /\ genOut = << >>
    /\ att = << >>
    /\ prompt = << >>
    /\ hub = << >>
    /\ poll = << >>
    /\ store = << >>
    /\ picked = << >>
    /\ \E r \in ChatResponses :
          chat = [pc |-> "post", resp |-> r, attempt |-> 1, sent |-> << >>,
                  slept |-> << >>, out |-> Raises("pending")]

ChatNext == PostChat \/ ChatExtract

ChatSpec == ChatInit /\ [][ChatNext]_vars

\* ------------------------------------------------------------ PublishSpec
AppFile(name, kind) == [name |-> name, kind |-> kind]

\* app_code in dict order: the files of the manifest, then the attachments
\* _process_attachments added.
AppCodes ==
    { <<AppFile("index.html", "manifest")>>,
      <<AppFile("index.html", "manifest"), AppFile("data.csv", "attachment")>>,
      <<AppFile("index.html", "manifest"), AppFile("script.js", "manifest"),
        AppFile("data.csv", "attachment")>>,
      <<AppFile("index.html", "manifest"), AppFile("data.csv", "attachment"),
        AppFile("logo.png", "attachment")>> }

\* The remote before the publish: no repository, or one of an earlier round
\* with or without README.md.
Remotes ==
    { [exists |-> FALSE, readme |-> << >>],
      [exists |-> TRUE, readme |-> << >>],
      [exists |-> TRUE, readme |-> <<"round1">>],
      [exists |-> TRUE, readme |-> <<"header", "round1">>] }

PublishInit ==
    /\ AppInit
    /\ studentSecret = ""
    /\ text = << >>
    /\ parsed = << >>
    /\ genIn = << >>
    /\ genOut = << >>
    /\ att = << >>
    /\ prompt = << >>
    /\ chat = << >>
    /\ poll = << >>
    /\ store = << >>
    /\ picked = << >>
    /\ \E files \in AppCodes, remote \in Remotes :
        hub = [pc |-> "exists", attempt |-> 1, files |-> files, next |-> 1,
               exists |-> remote.exists, readme |-> remote.readme,
               readme0 |-> remote.readme, creates |-> << >>,
               log |-> << >>, cause |-> "", out |-> "pending"]

PublishNext ==
    \/ RepoExists
    \/ CreateRepo
    \/ PushAppFile
    \/ PushReadme
    \/ PushLicense
    \/ EnablePages

PublishSpec == PublishInit /\ [][PublishNext]_vars

\* ------------------------------------------------------------ PollSpec
PollRepos == {"demo-task", "tds-task"}

PollInit ==
    /\ AppInit
    /\ studentSecret = ""
    /\ text = << >>
    /\ parsed = << >>
    /\ genIn = << >>
    /\ genOut = << >>
    /\ att = << >>
    /\ prompt = << >>
    /\ chat = << >>
    /\ hub = << >>
    /\ store = << >>
    /\ picked = << >>
    /\ \E repo \in PollRepos :
        poll = [pc |-> "enable", repo |-> repo, accepted |-> FALSE, url |-> "",
                elapsed |-> 0, pings |-> 0, last |-> "", out |-> Raises("pending")]

PollNext == EnableRequest \/ Ping

PollSpec == PollInit /\ [][PollNext]_vars

\* The function runs on: a request that can be sent is sent.
PollFairSpec == PollSpec /\ WF_vars(PollNext)

\* ------------------------------------------------------------ SelectorSpec
SelectorChecks ==
    {CheckH1, CheckSeed, CheckSales, CheckTotal, CheckToggle, CheckDark, CheckLight, CheckCanvas,
     CheckData, CheckBlank}

\* No checks, an empty list, and the lists of one and of two checks.
SelectorArgs ==
    {ChecksNone, ChecksList(<< >>)}
    \cup {ChecksList(<<c>>) : c \in SelectorChecks}
    \cup {ChecksList(<<c, d>>) : c \in SelectorChecks, d \in SelectorChecks}

SelectorInit ==
    /\ AppInit
    /\ studentSecret = ""
    /\ text = << >>
    /\ parsed = << >>
    /\ genIn = << >>
    /\ genOut = << >>
    /\ att = << >>
    /\ prompt = << >>
    /\ chat = << >>
    /\ hub = << >>
    /\ poll = << >>
    /\ store = << >>
    /\ \E arg \in SelectorArgs :
        picked = [pc |-> "called", checks |-> arg, out |-> Raises("pending")]

SelectorNext == ExtractSelectors

SelectorSpec == SelectorInit /\ [][SelectorNext]_vars

\* ------------------------------------------------------------ StoreSpec
StorePaths == {"index.html", "README.md", "LICENSE"}

\* The paths create_repo_and_push writes: app_code, README.md, LICENSE.
WriteOrder == <<"index.html", "README.md", "LICENSE">>

\* The remote before the run: a repository just created (README.md and
\* LICENSE of its first commit) or one an earlier round has published.
NoFile == [sha |-> 0, content |-> ""]
OldFile == [sha |-> 1, content |-> "previous"]
StoreRemotes ==
    {[p \in StorePaths |-> IF p \in present THEN OldFile ELSE NoFile] :
        present \in {{}, {"README.md", "LICENSE"}, StorePaths}}

StoreInit ==
    /\ AppInit
    /\ studentSecret = ""
    /\ text = << >>
    /\ parsed = << >>
    /\ genIn = << >>
    /\ genOut = << >>
    /\ att = << >>
    /\ prompt = << >>
    /\ chat = << >>
    /\ hub = << >>
    /\ poll = << >>
    /\ picked = << >>
    /\ \E remote \in StoreRemotes :
        store = [pc |-> "sha", attempt |-> 1, paths |-> WriteOrder, next |-> 1,
                 remote |-> remote, seen |-> 0, lookup |-> "", puts |-> << >>,
                 faults |-> 0, edits |-> 0, clean |-> TRUE, out |-> "pending"]

StoreNext == GetFileSha \/ ExternalEdit \/ PutFile \/ PutAgain

StoreSpec == StoreInit /\ [][StoreNext]_vars

\* ------------------------------------------------------------ the claims
Terminal == {"done", "done_notify_failed", "failed"}

\* A row is written at a step iff its attempts counter moves.
Written(w) == w \in DOMAIN rows /\ rows'[w].attempts # rows[w].attempts
Created(w) == w \notin DOMAIN rows /\ w \in DOMAIN rows'

\* The status chain of spec 4.9 as a relation on (status, next status).
ChainStep(a, b) ==
    \/ a = "queued" /\ b = "processing"
    \/ a = "processing" /\ b = "generated"
    \/ a = "generated" /\ b = "pushed"
    \/ a = "pushed" /\ b \in {"notified", "notify_failed"}
    \/ a \in {"notified", "notify_failed"} /\ b \in {"done", "done_notify_failed"}
    \/ a \notin Terminal /\ b = "failed"

\* C1 (as stated): the statuses written to a row follow queued -> processing
\* -> generated -> pushed -> notified|notify_failed -> done|done_notify_failed
\* with no step skipped or repeated, failed being allowed at any point.
C1_ChainNoSkip ==
    [][\A w \in DOMAIN rows' :
          /\ Created(w) => rows'[w].status = "queued"
          /\ Written(w) => ChainStep(rows[w].status, rows'[w].status)]_vars

\* C1 (amended): the statuses written to a row follow the chain, except that
\* a task without evaluation URL goes from pushed to done directly; failed
\* may be written instead at any point; no other value is written.
C1_ChainOrSkippedNotify ==
    [][\A w \in DOMAIN rows' :
          /\ Created(w) => rows'[w].status = "queued"
          /\ Written(w) =>
               \/ ChainStep(rows[w].status, rows'[w].status)
               \/ /\ rows[w].status = "pushed"
                  /\ rows'[w].status = "done"
                  /\ rows[w].evaluation_url = ""]_vars

C1_Witness ==
    \E w \in DOMAIN rows :
        /\ rows[w].status = "done"
        /\ rows[w].evaluation_url = ""
        /\ rows[w].attempts = 4

\* C2 (as stated): a task is in status pushed, or has files published, only
\* if every selector extractable from its checks is in a published HTML file.
C2_PushedOnlyIfSelectorsFound ==
    \A w \in DOMAIN rows :
        /\ published[w] # << >> =>
              BasicStructuralCheck(rows[w].checks, {published[w][1]})
        /\ rows[w].status = "pushed" => published[w] # << >>

\* C3 (as stated): process_task never raises, and whenever a stage raised
\* the task has a row whose status is failed when the function has returned.
C3_FailedAlwaysRecorded ==
    \A w \in Slots :
        /\ pc[w] # "raised"
        /\ pc[w] = "returned" /\ failedAt[w] # None =>
              w \in DOMAIN rows /\ rows[w].status = "failed"

\* C3 (amended): process_task never raises for any identifier; whenever a
\* stage raised, the function returns and the row of the task, if the table
\* has one, has status failed.
C3_NeverRaises ==
    \A w \in Slots :
        /\ pc[w] # "raised"
        /\ pc[w] = "returned" /\ failedAt[w] # None /\ w \in DOMAIN rows =>
              rows[w].status = "failed"

C3_Witness ==
    \E w \in Slots :
        /\ pc[w] = "returned"
        /\ failedAt[w] # None
        /\ ident[w].kind = "dict"
        /\ w \notin DOMAIN rows

\* C4 (as stated): when every notification attempt failed the final status
\* is done_notify_failed; the final status is done only if one succeeded.
C4_NotifyFailureDegradesDone ==
    \A w \in DOMAIN rows :
        pc[w] = "returned" =>
            /\ notifiedOk[w] = "False" => rows[w].status = "done_notify_failed"
            /\ rows[w].status = "done" => notifiedOk[w] = "True"

\* Whatever the host does, each poll loop issues at most timeout/sleep + 2
\* requests.
PollsBounded ==
    \A env \in PushEnvs :
        /\ wait_for_index(env.indexAt, env.latency).polls
              <= IndexTimeout \div IndexSleep + 2
        /\ pages_poll(env.pagesAt, env.latency).polls
              <= PagesTimeout \div PagesPollInterval + 2

\* C5: every task whose processing has started reaches a terminal status
\* (the call returns), a terminal status is never overwritten, and both poll
\* loops issue a bounded number of requests.
C5_Terminates ==
    /\ \A w \in Slots :
          (pc[w] = "generate") ~>
              (pc[w] = "returned" /\ (w \in DOMAIN rows => rows[w].status \in Terminal))
    /\ [][\A w \in DOMAIN rows :
             rows[w].status \in Terminal /\ pc[w] = "returned" => rows'[w] = rows[w]]_vars
    /\ []PollsBounded

C5_Witness ==
    \E w \in DOMAIN rows :
        /\ pc[w] = "returned"
        /\ rows[w].status = "failed"
        /\ failedAt[w] = "generate"
        /\ attempt[w] = GenMaxAttempts

\* C6: a row is created and a worker scheduled only by a submission whose
\* secret equals the configured, non-empty secret; any other submission is
\* answered 403 and leaves the table (and the workers) as they were.
C6_SecretGuardsTable ==
    [][/\ (DOMAIN rows' # DOMAIN rows
            \/ \E w \in Slots : pc[w] = "idle" /\ pc'[w] = "scheduled") =>
              /\ studentSecret # ""
              /\ resp'.secret = studentSecret
              /\ resp'.code = 200
       /\ (resp' # resp /\ (studentSecret = "" \/ resp'.secret # studentSecret)) =>
              /\ resp'.code = 403
              /\ rows' = rows
              /\ pc' = pc]_vars

C6_Witness ==
    /\ studentSecret = ""
    /\ resp.code = 403
    /\ resp.secret = ""
    /\ rows = << >>

\* C7: until the acknowledgement of an accepted submission has been sent,
\* its row is committed with status queued and its worker has done nothing.
C7_AckBeforeWorker ==
    \A w \in DOMAIN rows :
        w \notin acked =>
            /\ rows[w].status = "queued"
            /\ rows[w].attempts = 0
            /\ calls[w] = {}
            /\ pc[w] = "scheduled"

C7_Witness ==
    \E w \in DOMAIN rows :
        /\ w \in acked
        /\ rows[w].status = "processing"
        /\ calls[w] = {}

\* C8: when a task's first repository call is issued its row says generated,
\* and when its first notification POST is issued its row says pushed and
\* holds the repository URL, the commit id and the pages URL.
C8_PersistedBeforeNextStage ==
    [][\A w \in DOMAIN rows :
          /\ ("repo" \notin calls[w] /\ "repo" \in calls'[w]) =>
                rows[w].status = "generated"
          /\ ("post" \notin calls[w] /\ "post" \in calls'[w]) =>
                /\ rows[w].status = "pushed"
                /\ rows[w].repo_name # None
                /\ rows[w].commit_sha # None
                /\ rows[w].pages_url # None]_vars

C8_Witness ==
    \E w \in DOMAIN rows :
        /\ "post" \in calls[w]
        /\ rows[w].status = "pushed"
        /\ rows[w].commit_sha # None

\* C9: after a failed generation stage no repository call is made, after a
\* failed publish stage no notification POST is sent, and in both cases the
\* row's status is failed once the call has returned.
C9_StageFailureTerminal ==
    \A w \in Slots :
        /\ failedAt[w] = "generate" => "repo" \notin calls[w] /\ "post" \notin calls[w]
        /\ failedAt[w] = "push" => "post" \notin calls[w]
        /\ failedAt[w] \in {"generate", "push"} =>
              /\ pc[w] \in {"except", "returned"}
              /\ pc[w] = "returned" /\ w \in DOMAIN rows => rows[w].status = "failed"

C9_Witness ==
    \E w \in DOMAIN rows :
        /\ failedAt[w] = "push"
        /\ pc[w] = "returned"
        /\ rows[w].status = "failed"
        /\ "repo" \in calls[w]

\* C10: once a row's status is pushed (or a later one), no write sets it to
\* failed, whatever the evaluator answers.
C10_NoFailedAfterPushed ==
    [][\A w \in DOMAIN rows :
          rows[w].status \in {"pushed", "notified", "notify_failed", "done"} =>
              rows'[w].status # "failed"]_vars

C10_Witness ==
    \E w \in DOMAIN rows :
        /\ rows[w].status = "done"
        /\ notifiedOk[w] = "False"
        /\ attempt[w] = NotifyRetries

\* The texts a TaskRecord row holds (models.TaskRecord has no error column).
StoredTexts(row) ==
    {row.task, row.brief, row.evaluation_url, row.status, row.repo_name,
     row.commit_sha, row.pages_url}

\* C11 (as stated): whenever a task's row says failed, the error text of the
\* failure is stored in that row, and in no other task's row.
C11_ErrorTextStored ==
    \A w \in DOMAIN rows :
        rows[w].status = "failed" =>
            /\ failedAt[w] \in StoredTexts(rows[w])
            /\ \A v \in DOMAIN rows \ {w} : failedAt[w] \notin StoredTexts(rows[v])

\* C12 (as stated): a POST answered with any 2xx status is a success: the
\* notification is recorded as delivered and no further POST is sent.
C12_Any2xxIsSuccess ==
    [][\A w \in Slots :
          post[w].answer \in {"200", "201"} =>
              /\ notifiedOk[w] = "True"
              /\ post'[w] = post[w]]_vars

\* C13 (as stated): when every POST fails the stage makes exactly 6 of them,
\* never more, sleeping 1, 2, 4, ... seconds after the 1st, 2nd, 3rd, ... one.
C13_SixAttempts ==
    \A w \in Slots :
        /\ post[w].n <= 6
        /\ post[w].n >= 1 /\ post[w].answer # "200" => post[w].delay = 2 ^ (post[w].n - 1)
        /\ notifiedOk[w] = "False" => post[w].n = 6

\* C14 (as stated): for every valid JSON object embedded in noise text or in
\* a fenced block, _extract_json_from_text returns an object equal to it.
C14_RoundTrip ==
    parsed # NotParsed => parsed = [ok |-> TRUE, val |-> Canon(text.object)]

\* What the schema of the specification asks of a parsed manifest.
SchemaHolds(d) ==
    /\ "files" \in d.keys
    /\ d.files # << >>
    /\ \A k \in 1..Len(d.files) :
          /\ {"path", "content"} \subseteq d.files[k].keys
          /\ d.files[k].path # ""
          /\ d.files[k].content # << >>

\* C15: generate_manifest returns a manifest only when the parsed manifest
\* has a non-empty files list whose entries all have a non-empty path and a
\* non-empty content (anything else is rejected), and an entry that came
\* without encoding is returned with encoding utf-8.
C15_InvalidManifestRejected ==
    genOut.stage = "returned" =>
        /\ SchemaHolds(genIn.manifest)
        /\ \A k \in 1..Len(genIn.manifest.files) :
              "encoding" \notin genIn.manifest.files[k].keys =>
                  genOut.files[k].encoding = "utf-8"

\* C16: every manifest generate_manifest returns has an HTML document among
\* its entries and no two entries with the same path.
C16_HtmlEntryAndUniquePaths ==
    genOut.stage = "returned" =>
        /\ \E k \in 1..Len(genOut.files) : Lower(genOut.files[k].path) = "index.html"
        /\ \A j, k \in 1..Len(genOut.files) :
              genOut.files[j].path = genOut.files[k].path => j = k

\* C17: the theme repair applied to the manifest generate_manifest returned,
\* with the same checks, leaves every file as it is.
C17_ThemeRepairIdempotent ==
    [][genOut.stage = "returned" => genOut'.files = genOut.files]_vars

\* The second pass ran on a manifest into which the first pass had put the
\* toggle.
C17_Witness ==
    /\ genOut.stage = "repaired again"
    /\ theme_required(genIn.checks)
    /\ \E k \in 1..Len(genIn.manifest.files) :
          /\ ToggleBtn \in Range(genOut.files[k].content)
          /\ ToggleBtn \notin Range(genIn.manifest.files[k].content)

LightElements == {LightDiv}
DarkElements == {DarkDiv, DarkDivShown}
ToggleElements == {ToggleBtn, TableTag("theme-toggle"), BareTableTag("theme-toggle")}
Count(s, tags) == Cardinality({i \in 1..Len(s) : s[i] \in tags})

\* C18: when the checks ask for the theme and the index.html of the model
\* lacks one of the three elements, the index.html returned holds exactly one
\* light container, exactly one dark container, hidden, and exactly one
\* element with the id theme-toggle.
C18_ExactlyOneOfEach ==
    genOut.stage = "returned" /\ theme_required(genIn.checks) =>
        \A k \in 1..Len(genIn.manifest.files) :
            LET before == genIn.manifest.files[k].content
                after == genOut.files[k].content
            IN  /\ Lower(genIn.manifest.files[k].path) = "index.html"
                /\ \/ Count(before, LightElements) = 0
                   \/ Count(before, DarkElements) = 0
                   \/ Count(before, ToggleElements) = 0
                => /\ Count(after, LightElements) = 1
                   /\ Count(after, DarkElements) = 1
                   /\ Count(after, {DarkDiv}) = 1
                   /\ Count(after, ToggleElements) = 1

\* The tables of an id in a document, and the rows of the table opened at i.
TablesOf(s, id) == {i \in 1..Len(s) : s[i] \in {TableTag(id), BareTableTag(id)}}
RowsOfTable(s, i) ==
    LET ends == {j \in (i + 1)..Len(s) : s[j] = TableEnd}
        last == IF ends = {} THEN Len(s) ELSE Least(ends)
    IN  {j \in (i + 1)..last : s[j] \in RowTags}

\* C19: with a CSV attachment of a header and N >= 1 data rows and the check
\* #sales tbody tr, the index.html returned has exactly one table with the id
\* sales, and it holds min(N, 50) rows.
C19_CsvRowsInOneTable ==
    /\ genOut.stage = "returned"
    /\ genIn.lines >= 2
    /\ CheckSales \in Range(genIn.checks)
    => \A k \in 1..Len(genOut.files) :
          Lower(genOut.files[k].path) = "index.html" =>
              LET s == genOut.files[k].content
                  n == genIn.lines - 1
              IN  /\ Cardinality(TablesOf(s, "sales")) = 1
                  /\ \A i \in TablesOf(s, "sales") :
                        Cardinality(RowsOfTable(s, i)) = IF n > max_rows THEN max_rows ELSE n

\* C20: when a check contains tbody tr, every table of the index.html
\* returned whose id the checks name holds at least one row.
C20_NoEmptyReferencedTable ==
    /\ genOut.stage = "returned"
    /\ \E c \in Range(genIn.checks) : HasTbodyTr(c)
    => \A k \in 1..Len(genOut.files) :
          Lower(genOut.files[k].path) = "index.html" =>
              \A id \in Range(_extract_table_ids_from_checks(genIn.checks)) :
                  \A i \in TablesOf(genOut.files[k].content, id) :
                      RowsOfTable(genOut.files[k].content, i) # {}

\* C21: an attachment whose URL has failed on the first two requests gets no
\* third request, and the manifest returned holds the placeholder text file
\* under the name of the attachment.
C21_TwoFailuresThenPlaceholder ==
    \A k \in 1..Len(AttachmentsOf(att.obj)) :
        LET d == att.obj.attachments[k] IN
        /\ d.name # "" /\ d.url \in HttpUrls
        /\ att.answers[d.url][1] # "200" /\ att.answers[d.url][2] # "200"
        => /\ att.requests[d.url] <= 2
           /\ att.pc = "returned" => att.result.files[d.name] = AttPlaceholder(d.name)

\* C22: for a task accepted through the submission endpoint, the files
\* handed on to the push hold, under the name of every attachment that has
\* a name and a url, a file that is not the generated one: the downloaded
\* content or the placeholder.
C22_AttachmentsOfAcceptedTaskMerged ==
    att.pc = "returned" /\ att.obj.kind = "record" =>
        \A k \in 1..Len(att.obj.attachments) :
            LET d == att.obj.attachments[k] IN
            d.name # "" /\ d.url # "" =>
                /\ att.result.isdict
                /\ d.name \in DOMAIN att.result.files
                /\ att.result.files[d.name] \in
                      {AttPlaceholder(d.name), Stored(Served(d.url), d.name),
                       Stored(DecodeDataUri(d.url), d.name)}

\* The substitution the specification asks for, on the pieces in use.
SeedReplaced(piece, nonce) ==
    IF piece = SeedMark THEN nonce
    ELSE IF piece = CheckSeed THEN "document.title.includes('" \o nonce \o "')"
    ELSE piece

\* C23: the prompt that is sent holds the brief and the checks with the
\* nonce of the round in the place of every ${seed}, and no ${seed}.
C23_SeedSubstituted ==
    prompt.pc = "sent" =>
        /\ prompt.sent.brief =
              [k \in 1..Len(prompt.brief) |-> SeedReplaced(prompt.brief[k], prompt.nonce)]
        /\ prompt.sent.checks_text =
              [k \in 1..Len(prompt.checks) |-> SeedReplaced(prompt.checks[k], prompt.nonce)]
        /\ Range(prompt.sent.brief) \cap {SeedMark, CheckSeed} = {}
        /\ Range(prompt.sent.checks_text) \cap {SeedMark, CheckSeed} = {}

\* The call gave up: the last request failed and no further one is made.
GaveUp == chat.pc = "done" /\ chat.sent # << >> /\ chat.sent[Len(chat.sent)] # "200"

C25_ModelErrorAfterRetries ==
    GaveUp /\ chat.sent[Len(chat.sent)] \in {"400", "429", "500"} =>
        chat.out = Raises("LLMError")

\* The texts a value can give, and the values of the four fields of a
\* response in the order of the specification, those that are there.
TextsOf(v) ==
    IF v.type = "str" THEN {StripStr(v.s)}
    ELSE IF v.type = "list" THEN {StripStr(v.items[k]) : k \in 1..Len(v.items)}
    ELSE {}
FieldsPresent(data) ==
    LET choice == data.choices[1]
        inChoice == "choices" \in data.keys /\ data.choices # << >>
        content == IF /\ inChoice
                      /\ "message" \in choice.keys
                      /\ choice.message.isdict
                      /\ "content" \in choice.message.keys
                   THEN <<choice.message.content>> ELSE << >>
        txt == IF inChoice /\ "text" \in choice.keys THEN <<choice.text>> ELSE << >>
        output == IF "output" \in data.keys THEN <<data.output>> ELSE << >>
        result == IF "result" \in data.keys THEN <<data.result>> ELSE << >>
    IN  content \o txt \o output \o result

\* C26: chat_completion raises LLMError when the response has none of the
\* four fields, and a value it returns is the text of the first of the four
\* fields that has one.
C26_TextFromFirstField ==
    chat.pc = "done" /\ chat.sent[Len(chat.sent)] = "200" =>
        LET fields == FieldsPresent(chat.resp)
            HasText(v) == TextsOf(v) # {}
            usable == SelectSeq(fields, HasText)
        IN  /\ fields = << >> => chat.out = Raises("LLMError")
            /\ chat.out.kind = "return" =>
                  /\ usable # << >>
                  /\ chat.out.value \in TextsOf(usable[1])

\* The steps that write a file of the application.
FileSteps == {"manifest", "attachment"}

\* C27: within one publish run the steps come in the order repository ready,
\* manifest files, attachments, hosting enabled, README: no file is written
\* before the repository exists, hosting is enabled only after every file of
\* the application is pushed, and README.md is written only after hosting
\* has been enabled.
C27_PublishOrder ==
    hub # << >> =>
      \A j \in DOMAIN hub.log :
        /\ hub.log[j] \in FileSteps \cup {"readme"} => hub.log[1] = "repo" /\ j > 1
        /\ hub.log[j] = "manifest" =>
              \A i \in 1..(j - 1) : hub.log[i] # "attachment"
        /\ hub.log[j] = "pages" =>
              Cardinality({i \in 1..(j - 1) : hub.log[i] \in FileSteps}) = Len(hub.files)
        /\ hub.log[j] = "readme" => \E i \in 1..(j - 1) : hub.log[i] = "pages"

\* C28: a create-repository request is sent only when no repository of the
\* name exists, in every attempt of the push stage and for a repository an
\* earlier round has published.
C28_CreateOnlyIfAbsent ==
    hub # << >> => \A k \in DOMAIN hub.creates : ~hub.creates[k]

\* C29: the task does not fail because an attachment could not be pushed or
\* README.md could not be updated; only the repository, a manifest file or
\* hosting can fail it.
C29_AttachmentAndReadmeTolerated ==
    hub # << >> /\ hub.out = "failed" => hub.cause \notin {"attachment", "readme"}

\* C30: after a publish to a repository whose README.md had content, the
\* README is the previous content followed by one new section.
C30_ReadmeAppended ==
    hub # << >> /\ hub.out = "pushed" /\ hub.readme0 # << >> =>
        /\ Len(hub.readme) = Len(hub.readme0) + 1
        /\ SubSeq(hub.readme, 1, Len(hub.readme0)) = hub.readme0

\* The pings one call can send: one per poll_interval of the total wait, and
\* the two around its end.
MaxPings == PagesTimeout \div PagesPollInterval + 2

\* C31: once the request that enables hosting is accepted,
\* enable_pages_and_wait terminates and returns the site URL, at the first
\* ping that answers 200 or when the total wait has passed; a ping that
\* errors or times out never raises.
C31_PollReturnsUrl ==
    /\ [](poll.accepted =>
            /\ poll.out.kind # "raise" \/ poll.out.error = "pending"
            /\ poll.pings <= MaxPings
            /\ poll.pc = "ping" => poll.last # "200" /\ poll.elapsed <= PagesTimeout + PagesPollInterval
            /\ poll.pc = "done" =>
                  /\ poll.out = Returned(poll.url)
                  /\ poll.last = "200" \/ poll.elapsed > PagesTimeout)
    /\ (poll.accepted ~> (poll.pc = "done" /\ poll.out = Returned(poll.url)))

\* The wait ran out after pings that failed in each way, and the URL was
\* returned.
C31_Witness ==
    /\ poll.accepted
    /\ poll.pc = "done"
    /\ poll.last \in {"exc", "timeout"}
    /\ poll.elapsed > PagesTimeout
    /\ poll.out = Returned(DefaultPagesUrl(poll.repo))

\* C32: under every interleaving of the workers, a step of the worker of
\* task A leaves every row whose id is not A as it is: status, repository,
\* commit id, pages URL and attempt counter of the other rows are unchanged,
\* and no row is added or removed.
C32_WorkerWritesOwnRow ==
    [][\A w \in Slots :
          process_task(w) =>
              /\ DOMAIN rows' = DOMAIN rows
              /\ \A i \in DOMAIN rows : i # ident[w].id => rows'[i] = rows[i]]_vars

\* Two tasks are in flight and the worker of one has written its row while
\* the row of the other is still as its own worker left it.
C32_Witness ==
    /\ DOMAIN rows = {1, 2}
    /\ pc[1] \notin {"idle", "scheduled", "ready", "returned"}
    /\ pc[2] \notin {"idle", "scheduled", "ready", "returned"}
    /\ rows[1].status = "pushed"
    /\ rows[2].status = "processing"
    /\ rows[2].attempts = 1
    /\ rows[1].attempts > 1

\* The repository a worker publishes to.
RepoOf(w) == RepoName(RepoHint(taskObj[w]))

\* C33: two distinct tasks in flight at the same time never write files to
\* the same remote repository, whatever their names and requesters are.
C33_DistinctRepositories ==
    \A v, w \in Slots :
        /\ v # w
        /\ pc[v] \notin {"idle", "returned"} /\ pc[w] \notin {"idle", "returned"}
        /\ published[v] # << >> /\ published[w] # << >>
        => RepoOf(v) # RepoOf(w)

\* The checks that match none of the patterns.
Patternless == {CheckH1, CheckBlank}

\* C34: _extract_selectors_from_checks returns for every check list, an
\* absent list too, and for no checks or checks that match no pattern the
\* four token sets and the list of hints are empty.
C34_SelectorsNeverRaise ==
    picked.pc = "done" =>
        /\ picked.out.kind = "return"
        /\ Range(picked.checks.items) \subseteq Patternless =>
              /\ picked.out.value.ids = {}
              /\ picked.out.value.classes = {}
              /\ picked.out.value.tags = {}
              /\ picked.out.value.data_attrs = {}
              /\ picked.out.value.compound_hints = << >>

\* C35: the repair passes change the content of no manifest entry but the
\* first one whose path is index.html in any case; without such an entry no
\* content is changed.
C35_OnlyFirstIndexEdited ==
    genOut.stage = "returned" =>
        LET before == ManifestSchema(genIn.manifest).files
            index == {k \in 1..Len(before) : Lower(before[k].path) = "index.html"}
        IN  \A k \in 1..Len(before) :
                (index = {} \/ k # Least(index)) =>
                    genOut.files[k].content = before[k].content

\* The entries of the returned manifest whose path is index.html.
IndexEntries == {k \in 1..Len(genOut.files) : Lower(genOut.files[k].path) = "index.html"}

OtherIds(content) == IF ToggleBtn \in Range(content) THEN {"theme-toggle"} ELSE {}

\* C39: the table repair inserts no table whose id another element of
\* index.html carries: the model's index.html has no table of an id that one
\* of its other elements has, and neither has the returned one.
C39_NoAmbiguousId ==
    genOut.stage = "returned" =>
        \A k \in IndexEntries :
            LET before == ManifestSchema(genIn.manifest).files[k].content
                after == genOut.files[k].content
            IN  \A id \in OtherIds(before) :
                    TableTag(id) \notin Range(before) => TableTag(id) \notin Range(after)

\* C36: a write carries no sha only when the lookup of its path answered 404,
\* and after a lookup that answered 200 it carries the sha of that answer: a
\* lookup that failed never leads to a write without condition.
C36_WriteCarriesSeenSha ==
    store # << >> =>
        \A k \in DOMAIN store.puts :
            /\ store.puts[k].sha = 0 => store.puts[k].lookup = "404"
            /\ store.puts[k].lookup = "200" => store.puts[k].sha # 0

\* C37 as stated: after a write was refused for a stale sha nothing more is
\* requested for the task, and the task has failed.
C37_ConflictFailsTask ==
    store # << >> =>
        \A k \in DOMAIN store.puts :
            store.puts[k].answer = "409" =>
                k = Len(store.puts) /\ store.pc = "done" /\ store.out = "failed"

\* C37 as the code has it: the call whose write was refused for a stale sha
\* neither looks the sha up again nor repeats the write, so the next write
\* belongs to a later attempt of the stage, which starts again from the
\* first path with a new lookup; the task fails only when its last attempt
\* has failed.
C37_ConflictFailsAttempt ==
    store # << >> =>
        /\ \A k \in DOMAIN store.puts :
              store.puts[k].answer = "409" /\ k < Len(store.puts) =>
                  /\ store.puts[k + 1].attempt = store.puts[k].attempt + 1
                  /\ store.puts[k + 1].path = store.paths[1]
        /\ store.out = "failed" => store.attempt = PushMaxAttempts

\* A write was refused for a stale sha and the stage went on to publish.
C37_Witness ==
    /\ store # << >>
    /\ store.out = "pushed"
    /\ \E k \in DOMAIN store.puts :
          store.puts[k].answer = "409" /\ store.puts[k].lookup = "200"

\* C40: an attempt that runs after an earlier one has failed part-way and
\* meets a healthy remote publishes, and every path it writes then holds the
\* content of the manifest, as after a single run.
C40_RerunConverges ==
    store # << >> /\ store.pc = "done" /\ store.clean =>
        /\ store.out = "pushed"
        /\ \A k \in DOMAIN store.paths :
              store.remote[store.paths[k]].content = GeneratedContent

\* The first attempt wrote index.html and failed later, the second one met
\* no failure and published.
C40_Witness ==
    /\ store # << >>
    /\ store.pc = "done" /\ store.clean /\ store.out = "pushed"
    /\ store.attempt = 2
    /\ \E k \in DOMAIN store.puts :
          /\ store.puts[k].attempt = 1
          /\ store.puts[k].path = "index.html"
          /\ store.puts[k].answer = "201"

====
